---- MODULE Spec2Model ----
(***************************************************************************)
(* Model of the passari-workflow preservation pipeline: the eligibility    *)
(* predicate and its two SQL forms, the enqueue planner, and the staged    *)
(* job pipeline with its locks.                                            *)
(*                                                                         *)
(*   SpecPending  one evaluation of the three eligibility forms on a row   *)
(*   SpecEnqueue  one enqueue_objects call against tables and queues       *)
(*   Spec         workers, planner, freeze_objects, reenqueue_object, CMS  *)
(*                sync, DPRES and sync_processed_sips on NObj objects      *)
(*   SpecAdmin    the four operations on workflow-lock and its expiry      *)
(*   SpecRecovery workers with unfreeze_objects and reset_workflow         *)
(*   SpecFreeze   one freeze_objects call, then one unfreeze_objects call  *)
(*   SpecConfirm  confirm_sip on a submitted package and its status file   *)
(*   SpecSubmit   submit_sip run again on a package already sent           *)
(*   SpecSync     sync_objects and sync_attachments, interrupted, resumed  *)
(*   SpecHashes   sync_hashes runs while attachments and links change      *)
(*   SpecReset    reset_workflow alone on two objects                      *)
(*   SpecReenqueue one reenqueue_object call, also for an absent object id *)
(*   SpecCrash    workers and planner that can be killed, keys that expire *)
(*   SpecProgress the pipeline under fair scheduling, DPRES accepting      *)
(*   SpecCombine  combine_results on lists of accepted and rejected reports*)
(*   SpecSkip     one sync_processed_sips run with its set of skipped names*)
(*   SpecLocks    handlers and scripts waiting for the two lock scopes     *)
(***************************************************************************)
EXTENDS Integers, Sequences, FiniteSets, TLC

\* ------------------------------------------------------------------ bounds
\* Dates are 0..MaxDate (seconds on a small scale); "now" is MaxDate.
MaxDate == 2
\* Delays (PRESERVATION_DELAY, UPDATE_DELAY) range over 0..MaxDelay.
MaxDelay == 1
\* Number of MuseumObject rows the planner is run against.
NObjPlan == 2
\* object_count arguments of enqueue_objects range over 0..MaxCount.
MaxCount == 2
\* sip_id values (seconds of the clock) are 1..MaxClock.
MaxClock == 2
\* Number of MuseumObject rows in the pipeline model.
NObj == 1

\* ------------------------------------------------- nullable column values
\* NULL of a DateTime column
NullDate == -1
\* datetime.datetime.min, the sentinel the queries coalesce NULL dates to
DatetimeMin == -2
\* NULL of a String(64) hash column
NullHash == "NULL"

Dates == {NullDate} \cup (0..MaxDate)
Hashes == {NullHash, "", "h1"}

\* ------------------------------------------------ SQL three-valued logic
TV == {"T", "F", "N"}
B3(b) == IF b THEN "T" ELSE "F"
And3(a, b) ==
    IF a = "F" \/ b = "F" THEN "F"
    ELSE IF a = "N" \/ b = "N" THEN "N" ELSE "T"
Or3(a, b) ==
    IF a = "T" \/ b = "T" THEN "T"
    ELSE IF a = "N" \/ b = "N" THEN "N" ELSE "F"
\* comparisons of nullable columns: NULL when either side is NULL
DateLt3(a, b) == IF a = NullDate \/ b = NullDate THEN "N" ELSE B3(a < b)
HashEq3(a, b) == IF a = NullHash \/ b = NullHash THEN "N" ELSE B3(a = b)
HashNe3(a, b) == IF a = NullHash \/ b = NullHash THEN "N" ELSE B3(a # b)
BoolEq3(a, b) == IF a = "N" THEN "N" ELSE B3(a = B3(b))
\* coalesce(x, datetime.datetime.min)
coalesce(x) == IF x = NullDate THEN DatetimeMin ELSE x

\* ------------------------------------------ a joined (object, package) row
\* A MuseumObject row left-joined with its latest MuseumPackage.  has_package
\* is "latest_package_id IS NOT NULL"; without a package the package columns
\* of the outer join are NULL.
NoPackageColumns ==
    [has_package |-> FALSE, object_modified_date |-> NullDate,
     p_metadata_hash |-> NullHash, p_attachment_metadata_hash |-> NullHash,
     cancelled |-> "N"]

PackageColumns ==
    {NoPackageColumns} \cup
    [has_package : {TRUE}, object_modified_date : Dates,
     p_metadata_hash : Hashes, p_attachment_metadata_hash : Hashes,
     cancelled : {"T", "F"}]

ObjectColumns ==
    [frozen : BOOLEAN, metadata_hash : Hashes,
     attachment_metadata_hash : Hashes,
     created_date : Dates, modified_date : Dates]

\* ------------------------------------------------- eligibility predicate
\* preservation_pending without the retry disjunct for a cancelled package
pending_without_retry(o, p, now, P, U) ==
    LET preservation_boundary == now - P
        update_boundary == now - U
    IN  /\ ~o.frozen
        /\ o.metadata_hash # NullHash /\ o.attachment_metadata_hash # NullHash
        /\ \/ /\ ~p.has_package
              /\ (o.created_date = NullDate
                  \/ o.created_date < preservation_boundary)
           \/ /\ p.has_package
              /\ p.object_modified_date # o.modified_date
              /\ (p.object_modified_date = NullDate
                  \/ p.object_modified_date < update_boundary)
              /\ (p.p_metadata_hash # o.metadata_hash
                  \/ p.p_attachment_metadata_hash # o.attachment_metadata_hash)

\* preservation_pending asking for both hashes to differ from the package's
pending_both_hashes(o, p, now, P, U) ==
    LET preservation_boundary == now - P
        update_boundary == now - U
    IN  /\ ~o.frozen
        /\ o.metadata_hash # NullHash /\ o.attachment_metadata_hash # NullHash
        /\ \/ /\ ~p.has_package
              /\ (o.created_date = NullDate
                  \/ o.created_date < preservation_boundary)
           \/ /\ p.has_package
              /\ p.object_modified_date # o.modified_date
              /\ (p.object_modified_date = NullDate
                  \/ p.object_modified_date < update_boundary)
              /\ (p.p_metadata_hash # o.metadata_hash
                  /\ p.p_attachment_metadata_hash # o.attachment_metadata_hash)
           \/ (p.has_package /\ p.cancelled = "T")

\* preservation_pending without the comparison of the modification dates
pending_ignoring_modified_date(o, p, now, P, U) ==
    LET preservation_boundary == now - P
        update_boundary == now - U
    IN  /\ ~o.frozen
        /\ o.metadata_hash # NullHash /\ o.attachment_metadata_hash # NullHash
        /\ \/ /\ ~p.has_package
              /\ (o.created_date = NullDate
                  \/ o.created_date < preservation_boundary)
           \/ /\ p.has_package
              /\ (p.object_modified_date = NullDate
                  \/ p.object_modified_date < update_boundary)
              /\ (p.p_metadata_hash # o.metadata_hash
                  \/ p.p_attachment_metadata_hash # o.attachment_metadata_hash)
           \/ (p.has_package /\ p.cancelled = "T")

\* MuseumObject.preservation_pending, evaluated in Python: None compares
\* equal only to None, "not x" of a date is "x is None".
preservation_pending(o, p, now, P, U) ==
    LET preservation_boundary == now - P
        update_boundary == now - U
    IN  /\ ~o.frozen
        /\ o.metadata_hash # NullHash /\ o.attachment_metadata_hash # NullHash
        /\ \/ /\ ~p.has_package
              /\ (o.created_date = NullDate
                  \/ o.created_date < preservation_boundary)
           \/ /\ p.has_package
              /\ p.object_modified_date # o.modified_date
              /\ (p.object_modified_date = NullDate
                  \/ p.object_modified_date < update_boundary)
              /\ (p.p_metadata_hash # o.metadata_hash
                  \/ p.p_attachment_metadata_hash # o.attachment_metadata_hash)
           \/ (p.has_package /\ p.cancelled = "T")

\* filter_preservation_pending without the filter on the two hashes
filter_where_any_hashes(o, p, now, P, U) ==
    LET preservation_boundary == now - P
        update_boundary == now - U
        first_time ==
            And3(B3(~p.has_package),
                 Or3(B3(o.created_date = NullDate),
                     DateLt3(o.created_date, preservation_boundary)))
        updated ==
            And3(B3(p.has_package),
            And3(B3(coalesce(p.object_modified_date)
                    # coalesce(o.modified_date)),
            And3(Or3(B3(p.object_modified_date = NullDate),
                     DateLt3(p.object_modified_date, update_boundary)),
                 Or3(HashNe3(o.metadata_hash, p.p_metadata_hash),
                     HashNe3(o.attachment_metadata_hash,
                             p.p_attachment_metadata_hash)))))
        retry == And3(B3(p.has_package), BoolEq3(p.cancelled, TRUE))
    IN  And3(B3(o.frozen = FALSE), Or3(first_time, Or3(updated, retry)))

\* WHERE clause of filter_preservation_pending as an SQL truth value
filter_where(o, p, now, P, U) ==
    LET preservation_boundary == now - P
        update_boundary == now - U
        first_time ==
            And3(B3(~p.has_package),
                 Or3(B3(o.created_date = NullDate),
                     DateLt3(o.created_date, preservation_boundary)))
        updated ==
            And3(B3(p.has_package),
            And3(B3(coalesce(p.object_modified_date)
                    # coalesce(o.modified_date)),
            And3(Or3(B3(p.object_modified_date = NullDate),
                     DateLt3(p.object_modified_date, update_boundary)),
                 Or3(HashNe3(o.metadata_hash, p.p_metadata_hash),
                     HashNe3(o.attachment_metadata_hash,
                             p.p_attachment_metadata_hash)))))
        retry == And3(B3(p.has_package), BoolEq3(p.cancelled, TRUE))
    IN  And3(B3(o.frozen = FALSE),
        And3(And3(B3(o.attachment_metadata_hash # NullHash),
                  B3(o.metadata_hash # NullHash)),
             Or3(first_time, Or3(updated, retry))))

\* a row is returned when the WHERE clause is true (not false, not NULL)
filter_preservation_pending(o, p, now, P, U) ==
    filter_where(o, p, now, P, U) = "T"

\* WHERE clause of exclude_preservation_pending
exclude_where(o, p, now, P, U) ==
    LET preservation_boundary == now - P
        update_boundary == now - U
        too_recent ==
            And3(B3(~p.has_package),
                 B3(coalesce(o.created_date) > preservation_boundary))
        unchanged ==
            And3(B3(p.has_package),
            And3(BoolEq3(p.cancelled, FALSE),
                 Or3(B3(coalesce(p.object_modified_date)
                        = coalesce(o.modified_date)),
                 Or3(B3(coalesce(p.object_modified_date) > update_boundary),
                     And3(HashEq3(p.p_metadata_hash, o.metadata_hash),
                          HashEq3(p.p_attachment_metadata_hash,
                                  o.attachment_metadata_hash))))))
    IN  Or3(B3(o.metadata_hash = NullHash),
        Or3(B3(o.attachment_metadata_hash = NullHash),
        Or3(B3(o.frozen),
        Or3(too_recent, unchanged))))

exclude_preservation_pending(o, p, now, P, U) ==
    exclude_where(o, p, now, P, U) = "T"

\* ------------------------------------------------------------- variables
VARIABLES
    row,        \* eligibility check: the joined row and the delays under test
    verdict,    \* eligibility check: what the three forms answered for row
    obj,        \* museum_objects table: object id -> row
    pkg,        \* museum_packages table: object id -> sip_id -> row
    jobs,       \* RQ jobs: object id -> stage -> [state, sip_id]
    delay,      \* configured PRESERVATION_DELAY (P) and UPDATE_DELAY (U)
    plan,       \* enqueue_objects: arguments, snapshot and result of a call
    clock,      \* current second of the wall clock (source of sip_id)
    run,        \* stage handlers: object id -> stage -> [pc, sip_id]
    lock,       \* lock-object-<id>: object id -> holding stage or "free"
    wflock,     \* workflow-lock: holding operation or "free"
    ops,        \* planner/freeze/unfreeze/reset: operation -> [pc, ids, ...]
    dir,        \* PACKAGE_DIR/<id>: object id -> [exists, status files]
    remote,     \* DPRES: object id -> sip_id -> none/uploaded/accepted/rejected
    committed,  \* history: object id -> sip_id -> stages whose body committed
    sync_status,   \* sync_statuses table: script -> [offset, dates]
    sync_run,      \* a running sync script: script -> [pc, index, ...]
    attachments,   \* museum_attachments table: attachment id -> row
    links,         \* object_attachment_association_table: <<object, attachment>>
    upstream,      \* MuseumPlus: the object and multimedia records it lists
    cycle          \* history: script -> first start, interruptions, completion

pendingVars == <<row, verdict>>
dbVars == <<obj, pkg>>
syncVars == <<sync_status, sync_run, attachments, links, upstream, cycle>>
workerVars == <<clock, run, lock, wflock, ops, dir, remote, committed,
                syncVars>>
vars == <<row, verdict, obj, pkg, jobs, delay, plan, clock, run, lock,
          wflock, ops, dir, remote, committed, syncVars>>

\* "now" of one evaluation: the three forms are compared for the same now
Now == MaxDate

\* ----------------------------------------------------------- the tables
SipIds == 1..MaxClock

\* MuseumPackage row; "exists" tells whether the row is in the table.  The
\* sip_filename of a package is determined by (object id, sip_id), so rows
\* are kept per object and sip_id.
NoPkg ==
    [exists |-> FALSE, downloaded |-> FALSE, packaged |-> FALSE,
     uploaded |-> FALSE, rejected |-> FALSE, preserved |-> FALSE,
     cancelled |-> FALSE, object_modified_date |-> NullDate,
     metadata_hash |-> NullHash, attachment_metadata_hash |-> NullHash]

\* latest_package_id IS NULL
NoLatest == 0

\* the object columns the eligibility forms read
ObjCols(objs, o) ==
    [frozen |-> objs[o].frozen, metadata_hash |-> objs[o].metadata_hash,
     attachment_metadata_hash |-> objs[o].attachment_metadata_hash,
     created_date |-> objs[o].created_date,
     modified_date |-> objs[o].modified_date]

\* the latest package's columns, as the outer join on latest_package_id
PkgCols(objs, pkgs, o) ==
    IF objs[o].latest_package = NoLatest THEN NoPackageColumns
    ELSE LET p == pkgs[o][objs[o].latest_package]
         IN  [has_package |-> TRUE,
              object_modified_date |-> p.object_modified_date,
              p_metadata_hash |-> p.metadata_hash,
              p_attachment_metadata_hash |-> p.attachment_metadata_hash,
              cancelled |-> B3(p.cancelled)]

\* ids returned by db.query(MuseumObject)
\*     .with_transformation(MuseumObject.filter_preservation_pending)
PendingQuery(objs, pkgs, d) ==
    {o \in DOMAIN objs :
        filter_preservation_pending(ObjCols(objs, o), PkgCols(objs, pkgs, o),
                                    Now, d.P, d.U)}

\* ------------------------------------------------------------ queue layer
QueueType == {"download_object", "create_sip", "submit_sip", "confirm_sip"}

NoJob == [state |-> "none", sip_id |-> 0]
JobStates == {"pending", "started", "failed"}

\* get_enqueued_object_ids without the FailedJobRegistry
EnqueuedIgnoringFailed(js) ==
    {o \in DOMAIN js :
        \E q \in QueueType : js[o][q].state \in {"pending", "started"}}

\* object ids with a pending, started or failed job in any stage queue
get_enqueued_object_ids(js) ==
    {o \in DOMAIN js :
        \E q \in QueueType :
            \/ js[o][q].state = "started"
            \/ js[o][q].state = "failed"
            \/ js[o][q].state = "pending"}

\* object ids with a job in a StartedJobRegistry
get_running_object_ids(js) ==
    {o \in DOMAIN js : \E q \in QueueType : js[o][q].state = "started"}

\* queue.enqueue(..., job_id="<stage>_<object_id>") with kwargs sip_id
enqueue_job(js, q, o, sid) ==
    [js EXCEPT ![o][q] = [state |-> "pending", sip_id |-> sid]]

\* enqueue_object(object_id): download_object_<id>, no sip_id yet
enqueue_object(js, o) == enqueue_job(js, "download_object", o, 0)

\* ------------------------------------------------------- enqueue planner
\* the orders in which the query may stream a set of rows (database order,
\* or func.random())
Orders(S) ==
    {f \in [1..Cardinality(S) -> S] :
        \A i, j \in 1..Cardinality(S) : f[i] = f[j] => i = j}

\* the "for museum_object in object_query" loop: ids enqueued so far in acc
RECURSIVE enqueue_loop(_, _, _, _, _)
enqueue_loop(order, i, enqueued_object_ids, object_count, acc) ==
    IF i > Len(order) THEN acc
    ELSE LET id == order[i]
             acc2 == IF id \notin enqueued_object_ids
                     THEN acc \cup {id} ELSE acc
         IN  IF Cardinality(acc2) >= object_count THEN acc2
             ELSE enqueue_loop(order, i + 1, enqueued_object_ids,
                               object_count, acc2)

\* the rows the planner's query returns: the pending ones, restricted to
\* object_ids when that argument is given (non-empty)
PlannerQuery(objs, pkgs, d, object_ids) ==
    IF object_ids # {}
    THEN PendingQuery(objs, pkgs, d) \cap object_ids
    ELSE PendingQuery(objs, pkgs, d)

\* object_count as used by the loop: len(object_ids) when object_ids is given
EffectiveCount(object_count, object_ids) ==
    IF object_ids # {} THEN Cardinality(object_ids) ELSE object_count

\* the ids enqueue_objects schedules, streaming the query in the given order
enqueue_objects(object_count, object_ids, order, enqueued_object_ids) ==
    enqueue_loop(order, 1, enqueued_object_ids,
                 EffectiveCount(object_count, object_ids), {})

\* jobs after scheduling download_object_<id> for every id of a set
RECURSIVE enqueue_all(_, _)
enqueue_all(js, ids) ==
    IF ids = {} THEN js
    ELSE LET o == CHOOSE x \in ids : TRUE
         IN  enqueue_all(enqueue_object(js, o), ids \ {o})

NoPlan ==
    [done |-> FALSE, object_count |-> 0, object_ids |-> {},
     enqueued |-> {}, jobs_before |-> <<>>, scheduled |-> {},
     new_job_count |-> 0]


Unevaluated == [done |-> FALSE, pending |-> FALSE, filtered |-> FALSE,
                excluded |-> FALSE]

\* ------------------------------------------------ workers and their locks
\* a stage handler that is not executing
Idle == [pc |-> "idle", sip_id |-> 0]

\* the operations that take lock_queues()
Ops == {"planner", "freeze", "unfreeze", "reset"}
\* pc is "idle", "cs" inside the guarded section, or "raised" after a call
\* that ended with an exception
OpIdle == [pc |-> "idle", ids |-> {}]

\* ------------------------------------------------- the sync scripts
\* the scripts that keep a SyncStatus row
Scripts == {"sync_objects", "sync_attachments"}

\* SyncStatus(name=name, offset=0): both dates NULL
NoStatus ==
    [offset |-> 0, start_sync_date |-> NullDate,
     prev_start_sync_date |-> NullDate]

\* a script that is not running
SyncStopped ==
    [pc |-> "idle", index |-> 0, all_iterated |-> FALSE,
     modify_date_gte |-> NullDate]

NoCycle == [first_start |-> NullDate, interrupts |-> 0, completed |-> FALSE]

\* no script has run; MuseumPlus lists nothing
SyncIdle ==
    /\ sync_status = [s \in Scripts |-> NoStatus]
    /\ sync_run = [s \in Scripts |-> SyncStopped]
    /\ attachments = <<>>
    /\ links = {}
    /\ upstream = [objects |-> <<>>, multimedia |-> <<>>]
    /\ cycle = [s \in Scripts |-> NoCycle]

\* no worker, operation or lock is active; nothing on disk or at DPRES
WorkersIdle ==
    /\ clock = 1
    /\ run = <<>> /\ lock = <<>> /\ dir = <<>> /\ remote = <<>>
    /\ committed = <<>>
    /\ wflock = "free"
    /\ SyncIdle
    /\ ops = [op \in Ops |-> OpIdle]

\* ------------------------------------- specification: eligibility forms
InitPending ==
    /\ row \in [o : ObjectColumns, p : PackageColumns,
                P : 0..MaxDelay, U : 0..MaxDelay]
    /\ verdict = Unevaluated
    /\ obj = <<>> /\ pkg = <<>> /\ jobs = <<>>
    /\ delay = [P |-> MaxDelay, U |-> MaxDelay]
    /\ plan = NoPlan
    /\ WorkersIdle

\* evaluate the property and run both queries on the row
Evaluate ==
    /\ ~verdict.done
    /\ verdict' =
         [done |-> TRUE,
          pending |-> preservation_pending(row.o, row.p, Now, row.P, row.U),
          filtered |->
              filter_preservation_pending(row.o, row.p, Now, row.P, row.U),
          excluded |->
              exclude_preservation_pending(row.o, row.p, Now, row.P, row.U)]
    /\ UNCHANGED <<row, obj, pkg, jobs, delay, plan, workerVars>>

NextPending == Evaluate

SpecPending == InitPending /\ [][NextPending]_vars

\* ------------------------------------- specification: the enqueue planner
\* Rows the planner is run against: an old object without a package
\* (unfrozen or frozen), a recent one, and one whose latest package was
\* cancelled.
PlanObjectBase ==
    [frozen |-> FALSE, freeze_reason |-> "none", freeze_source |-> "none",
     preserved |-> FALSE, latest_package |-> NoLatest,
     created_date |-> 0, modified_date |-> 0,
     metadata_hash |-> "h1", attachment_metadata_hash |-> ""]

PlanObjects ==
    {PlanObjectBase,
     [PlanObjectBase EXCEPT !.frozen = TRUE, !.freeze_reason = "reason",
                            !.freeze_source = "user"],
     [PlanObjectBase EXCEPT !.created_date = MaxDate],
     [PlanObjectBase EXCEPT !.latest_package = 1]}

PlanPackages ==
    {[NoPkg EXCEPT !.exists = TRUE, !.downloaded = TRUE, !.cancelled = TRUE,
                   !.object_modified_date = 0, !.metadata_hash = "h1",
                   !.attachment_metadata_hash = ""]}

\* at most one job per object, in any stage and any registry
PlanJobs ==
    {[q \in QueueType |-> NoJob]} \cup
    {[q \in QueueType |-> IF q = q0 THEN [state |-> st, sip_id |-> 0]
                          ELSE NoJob] :
        q0 \in QueueType, st \in JobStates}

InitEnqueue ==
    /\ row = [o |-> CHOOSE x \in ObjectColumns : TRUE, p |-> NoPackageColumns,
              P |-> 0, U |-> 0]
    /\ verdict = Unevaluated
    /\ obj \in [1..NObjPlan -> PlanObjects]
    /\ pkg \in [1..NObjPlan -> [SipIds -> PlanPackages \cup {NoPkg}]]
    /\ \A o \in 1..NObjPlan :
          /\ \A sid \in SipIds :
                pkg[o][sid].exists <=> obj[o].latest_package = sid
    /\ jobs \in [1..NObjPlan -> PlanJobs]
    /\ delay = [P |-> MaxDelay, U |-> MaxDelay]
    /\ plan = NoPlan
    /\ WorkersIdle

\* one call enqueue_objects(object_count, random, object_ids), run to its end
\* under lock_queues()
EnqueueObjectsCall ==
    /\ ~plan.done
    /\ \E object_ids \in SUBSET (DOMAIN obj) :
       \* object_count is overwritten when object_ids is given
       \E object_count \in IF object_ids = {} THEN 0..MaxCount ELSE {0} :
       \E order \in Orders(PlannerQuery(obj, pkg, delay, object_ids)) :
          LET enqueued == get_enqueued_object_ids(jobs)
              scheduled == enqueue_objects(object_count, object_ids, order,
                                           enqueued)
          IN  /\ jobs' = enqueue_all(jobs, scheduled)
              /\ plan' = [done |-> TRUE, object_count |-> object_count,
                          object_ids |-> object_ids, enqueued |-> enqueued,
                          jobs_before |-> jobs, scheduled |-> scheduled,
                          new_job_count |-> Cardinality(scheduled)]
    /\ UNCHANGED <<pendingVars, dbVars, delay, workerVars>>

NextEnqueue == EnqueueObjectsCall

SpecEnqueue == InitEnqueue /\ [][NextEnqueue]_vars

\* ------------------------------------------ specification: the pipeline
Objs == 1..NObj
Stages == <<"download_object", "create_sip", "submit_sip", "confirm_sip">>

\* a MuseumObject as sync_objects and sync_hashes leave it: old enough to be
\* eligible, hashes computed, never packaged
NewObject ==
    [frozen |-> FALSE, freeze_reason |-> "none", freeze_source |-> "none",
     preserved |-> FALSE, latest_package |-> NoLatest,
     created_date |-> 0, modified_date |-> 0,
     metadata_hash |-> "h1", attachment_metadata_hash |-> ""]

NoDir == [exists |-> FALSE, status |-> [sid \in SipIds |-> "none"]]

Init ==
    /\ row = [o |-> CHOOSE x \in ObjectColumns : TRUE, p |-> NoPackageColumns,
              P |-> 0, U |-> 0]
    /\ verdict = Unevaluated
    /\ plan = NoPlan
    /\ delay = [P |-> MaxDelay, U |-> MaxDelay]
    /\ obj = [o \in Objs |-> NewObject]
    /\ pkg = [o \in Objs |-> [sid \in SipIds |-> NoPkg]]
    /\ jobs = [o \in Objs |-> [q \in QueueType |-> NoJob]]
    /\ clock = 1
    /\ run = [o \in Objs |-> [q \in QueueType |-> Idle]]
    /\ lock = [o \in Objs |-> "free"]
    /\ wflock = "free"
    /\ SyncIdle
    /\ ops = [op \in Ops |-> OpIdle]
    /\ dir = [o \in Objs |-> NoDir]
    /\ remote = [o \in Objs |-> [sid \in SipIds |-> "none"]]
    /\ committed = [o \in Objs |-> [sid \in SipIds |-> {}]]

\* what the eligibility check and the single planner call leave alone
idleVars == <<row, verdict, plan, delay, syncVars>>

\* --- RQ worker bookkeeping
\* the job leaves the StartedJobRegistry when the handler returns
job_finished(js, o, q) ==
    IF js[o][q].state = "started" THEN [js EXCEPT ![o][q] = NoJob] ELSE js

\* the job moves to the FailedJobRegistry when the handler raises
job_failed(js, o, q) ==
    IF js[o][q].state = "started"
    THEN [js EXCEPT ![o][q].state = "failed"] ELSE js

\* delete_jobs_for_object_id: Job.fetch("<stage>_<id>").delete() per stage
delete_jobs_for_object_id(js, o) == [js EXCEPT ![o] = [q \in QueueType |-> NoJob]]

\* shutil.rmtree(PACKAGE_DIR / str(object_id)); a missing directory is ignored
rmtree(d, o) == [d EXCEPT ![o] = NoDir]

\* a worker takes a pending job: the job enters the StartedJobRegistry and
\* the handler is called.  download_object, create_sip and submit_sip then
\* wait for lock-object-<id>; confirm_sip carries no job_locked_by_object_id
\* and runs its body at once.
StartJob(o, q) ==
    /\ jobs[o][q].state = "pending"
    /\ run[o][q].pc = "idle"
    /\ jobs' = [jobs EXCEPT ![o][q].state = "started"]
    /\ run' = [run EXCEPT ![o][q] =
                 [pc |-> IF q = "confirm_sip" THEN "body" ELSE "wait",
                  sip_id |-> jobs[o][q].sip_id]]
    /\ UNCHANGED <<idleVars, dbVars, clock, lock, wflock, ops, dir, remote,
                   committed>>

\* a handler that returns with lock-object-<id> still set
release_nothing(l, o, q) == l

\* the handler returns or raises: "with lock" releases lock-object-<id>
release(l, o, q) == IF l[o] = q THEN [l EXCEPT ![o] = "free"] ELSE l

\* --- freeze_running_object(object_id, sip_id, freeze_reason)
\* The query is an inner join on latest_package_id: .one() raises
\* NoResultFound for an object without a latest package.
freeze_running_raises(o) == obj[o].latest_package = NoLatest

freeze_running_obj(o, sid, reason) ==
    [obj EXCEPT ![o].frozen = TRUE, ![o].freeze_reason = reason,
                ![o].freeze_source = "automatic"]

freeze_running_pkg(o, sid) ==
    IF obj[o].latest_package = sid
    THEN [pkg EXCEPT ![o][sid].cancelled = TRUE]
    ELSE pkg

\* --- download_object(object_id)
\* lock acquired; sip_id is taken from the clock; the downloader is called
DownloadBegin(o) ==
    /\ run[o]["download_object"].pc = "wait"
    /\ lock[o] = "free"
    /\ lock' = [lock EXCEPT ![o] = "download_object"]
    /\ run' = [run EXCEPT ![o]["download_object"] =
                 [pc |-> "body", sip_id |-> clock]]
    /\ UNCHANGED <<idleVars, dbVars, jobs, clock, wflock, ops, dir, remote,
                   committed>>

\* the handler leaves its body: "with lock" releases lock-object-<id>
leave(o, q) ==
    /\ run[o][q].pc = "body"
    /\ run' = [run EXCEPT ![o][q] = Idle]
    /\ lock' = release(lock, o, q)

\* the downloader raised PreservationError: freeze_running_object, return
DownloadPreservationError(o) ==
    LET q == "download_object"
        sid == run[o][q].sip_id
    IN
    /\ leave(o, q)
    /\ IF freeze_running_raises(o)
       THEN /\ jobs' = job_failed(jobs, o, q)
            /\ UNCHANGED <<dbVars, dir>>
       ELSE /\ obj' = freeze_running_obj(o, sid, "error")
            /\ pkg' = freeze_running_pkg(o, sid)
            /\ dir' = rmtree(dir, o)
            /\ jobs' = job_finished(jobs, o, q)
    /\ UNCHANGED <<idleVars, clock, wflock, ops, remote, committed>>

\* any other error of the downloader is re-raised
DownloadOSError(o) ==
    LET q == "download_object" IN
    /\ leave(o, q)
    /\ jobs' = job_failed(jobs, o, q)
    /\ UNCHANGED <<idleVars, dbVars, clock, wflock, ops, dir, remote,
                   committed>>

\* download_object without the "Package with filename already exists" test
DownloadOkOverwrites(o) ==
    LET q == "download_object"
        sid == run[o][q].sip_id
    IN
    /\ leave(o, q)
    /\ dir' = [dir EXCEPT ![o].exists = TRUE]
    /\ pkg' = [pkg EXCEPT ![o][sid] =
                 [NoPkg EXCEPT
                    !.exists = TRUE, !.downloaded = TRUE,
                    !.object_modified_date = obj[o].modified_date,
                    !.metadata_hash = obj[o].metadata_hash,
                    !.attachment_metadata_hash =
                        obj[o].attachment_metadata_hash]]
    /\ obj' = [obj EXCEPT ![o].latest_package = sid]
    /\ jobs' = enqueue_job(job_finished(jobs, o, q), "create_sip", o, sid)
    /\ committed' = [committed EXCEPT ![o][sid] = @ \cup {q}]
    /\ UNCHANGED <<idleVars, clock, wflock, ops, remote>>

\* downloaded: the package row is created unless the filename exists
\* (EnvironmentError), latest_package is set and create_sip is enqueued
DownloadOk(o) ==
    LET q == "download_object"
        sid == run[o][q].sip_id
    IN
    /\ leave(o, q)
    /\ dir' = [dir EXCEPT ![o].exists = TRUE]
    /\ IF pkg[o][sid].exists
       THEN /\ jobs' = job_failed(jobs, o, q)
            /\ UNCHANGED <<dbVars, committed>>
       ELSE /\ pkg' = [pkg EXCEPT ![o][sid] =
                 [NoPkg EXCEPT
                    !.exists = TRUE, !.downloaded = TRUE,
                    !.object_modified_date = obj[o].modified_date,
                    !.metadata_hash = obj[o].metadata_hash,
                    !.attachment_metadata_hash =
                        obj[o].attachment_metadata_hash]]
            /\ obj' = [obj EXCEPT ![o].latest_package = sid]
            /\ jobs' = enqueue_job(job_finished(jobs, o, q),
                                   "create_sip", o, sid)
            /\ committed' = [committed EXCEPT ![o][sid] = @ \cup {q}]
    /\ UNCHANGED <<idleVars, clock, wflock, ops, remote>>

\* --- create_sip(object_id, sip_id)
\* lock acquired; the first session reads the object's current package with
\* an inner join and .one() (NoResultFound without one); then the SIP
\* builder is called
CreateSipBegin(o) ==
    LET q == "create_sip" IN
    /\ run[o][q].pc = "wait"
    /\ lock[o] = "free"
    /\ IF obj[o].latest_package = NoLatest
       THEN /\ run' = [run EXCEPT ![o][q] = Idle]
            /\ jobs' = job_failed(jobs, o, q)
            /\ UNCHANGED lock
       ELSE /\ lock' = [lock EXCEPT ![o] = q]
            /\ run' = [run EXCEPT ![o][q].pc = "body"]
            /\ UNCHANGED jobs
    /\ UNCHANGED <<idleVars, dbVars, clock, wflock, ops, dir, remote,
                   committed>>

\* a handler that freezes the object but leaves its package uncancelled
CreateSipErrorKeepsPackage(o) ==
    LET q == "create_sip"
        sid == run[o][q].sip_id
    IN
    /\ leave(o, q)
    /\ obj' = freeze_running_obj(o, sid, "error")
    /\ dir' = rmtree(dir, o)
    /\ jobs' = job_finished(jobs, o, q)
    /\ UNCHANGED <<idleVars, pkg, clock, wflock, ops, remote, committed>>

\* the builder raised PreservationError: freeze_running_object, return
CreateSipPreservationError(o) ==
    LET q == "create_sip"
        sid == run[o][q].sip_id
    IN
    /\ leave(o, q)
    /\ IF freeze_running_raises(o)
       THEN /\ jobs' = job_failed(jobs, o, q)
            /\ UNCHANGED <<dbVars, dir>>
       ELSE /\ obj' = freeze_running_obj(o, sid, "error")
            /\ pkg' = freeze_running_pkg(o, sid)
            /\ dir' = rmtree(dir, o)
            /\ jobs' = job_finished(jobs, o, q)
    /\ UNCHANGED <<idleVars, clock, wflock, ops, remote, committed>>

\* OSError of the builder is re-raised
CreateSipOSError(o) ==
    LET q == "create_sip" IN
    /\ leave(o, q)
    /\ jobs' = job_failed(jobs, o, q)
    /\ UNCHANGED <<idleVars, dbVars, clock, wflock, ops, dir, remote,
                   committed>>

\* packaged: the row is looked up by sip_filename with .one(), packaged and
\* latest_package are set and submit_sip is enqueued
CreateSipOk(o) ==
    LET q == "create_sip"
        sid == run[o][q].sip_id
    IN
    /\ leave(o, q)
    /\ IF ~pkg[o][sid].exists
       THEN /\ jobs' = job_failed(jobs, o, q)
            /\ UNCHANGED <<dbVars, committed>>
       ELSE /\ pkg' = [pkg EXCEPT ![o][sid].packaged = TRUE]
            /\ obj' = [obj EXCEPT ![o].latest_package = sid]
            /\ jobs' = enqueue_job(job_finished(jobs, o, q),
                                   "submit_sip", o, sid)
            /\ committed' = [committed EXCEPT ![o][sid] = @ \cup {q}]
    /\ UNCHANGED <<idleVars, clock, wflock, ops, dir, remote>>

\* a submit_sip that skips the test of the uploaded flag
SubmitSipBeginUnchecked(o) ==
    LET q == "submit_sip" IN
    /\ run[o][q].pc = "wait"
    /\ lock[o] = "free"
    /\ lock' = [lock EXCEPT ![o] = q]
    /\ run' = [run EXCEPT ![o][q].pc = "body"]
    /\ UNCHANGED <<idleVars, dbVars, jobs, clock, wflock, ops, dir, remote,
                   committed>>

\* --- submit_sip(object_id, sip_id)
\* lock acquired; RuntimeError when the package is already marked uploaded
SubmitSipBegin(o) ==
    LET q == "submit_sip"
        sid == run[o][q].sip_id
    IN
    /\ run[o][q].pc = "wait"
    /\ lock[o] = "free"
    /\ IF pkg[o][sid].exists /\ pkg[o][sid].uploaded
       THEN /\ run' = [run EXCEPT ![o][q] = Idle]
            /\ jobs' = job_failed(jobs, o, q)
            /\ UNCHANGED lock
       ELSE /\ lock' = [lock EXCEPT ![o] = q]
            /\ run' = [run EXCEPT ![o][q].pc = "body"]
            /\ UNCHANGED jobs
    /\ UNCHANGED <<idleVars, dbVars, clock, wflock, ops, dir, remote,
                   committed>>

\* the upload script: the SIP reaches DPRES, or the transfer fails
SubmitSipUpload(o) ==
    LET q == "submit_sip"
        sid == run[o][q].sip_id
    IN
    /\ run[o][q].pc = "body"
    /\ \/ /\ remote' = [remote EXCEPT ![o][sid] =
                          IF @ = "none" THEN "uploaded" ELSE @]
          /\ run' = [run EXCEPT ![o][q].pc = "uploaded"]
          /\ UNCHANGED <<jobs, lock>>
       \/ /\ run' = [run EXCEPT ![o][q] = Idle]
          /\ jobs' = job_failed(jobs, o, q)
          /\ lock' = release(lock, o, q)
          /\ UNCHANGED remote
    /\ UNCHANGED <<idleVars, dbVars, clock, wflock, ops, dir, committed>>

\* the second session: uploaded = True on the row found with .one()
SubmitSipEnd(o) ==
    LET q == "submit_sip"
        sid == run[o][q].sip_id
    IN
    /\ run[o][q].pc = "uploaded"
    /\ run' = [run EXCEPT ![o][q] = Idle]
    /\ lock' = release(lock, o, q)
    /\ IF ~pkg[o][sid].exists
       THEN /\ jobs' = job_failed(jobs, o, q)
            /\ UNCHANGED <<pkg, committed>>
       ELSE /\ pkg' = [pkg EXCEPT ![o][sid].uploaded = TRUE]
            /\ jobs' = job_finished(jobs, o, q)
            /\ committed' = [committed EXCEPT ![o][sid] = @ \cup {q}]
    /\ UNCHANGED <<idleVars, obj, clock, wflock, ops, dir, remote>>

\* a confirm_sip that marks the object preserved whatever the status says
ConfirmSipPreservesAlways(o) ==
    LET q == "confirm_sip"
        sid == run[o][q].sip_id
        status == dir[o].status[sid]
    IN
    /\ run[o][q].pc = "body"
    /\ run' = [run EXCEPT ![o][q] = Idle]
    /\ pkg' = IF pkg[o][sid].exists
              THEN [pkg EXCEPT ![o][sid].preserved = (status = "accepted"),
                               ![o][sid].rejected = (status = "rejected")]
              ELSE pkg
    /\ obj' = [obj EXCEPT ![o].preserved = TRUE]
    /\ dir' = rmtree(dir, o)
    /\ jobs' = job_finished(jobs, o, q)
    /\ committed' = [committed EXCEPT ![o][sid] = @ \cup {q}]
    /\ UNCHANGED <<idleVars, clock, lock, wflock, ops, remote>>

\* --- confirm_sip(object_id, sip_id): takes no lock
\* reads <sip_filename>.status, runs the confirm script (which archives the
\* logs and clears the working directory), then updates the package found
\* by sip_filename and the object
ConfirmSipEnd(o) ==
    LET q == "confirm_sip"
        sid == run[o][q].sip_id
        status == dir[o].status[sid]
    IN
    /\ run[o][q].pc = "body"
    /\ run' = [run EXCEPT ![o][q] = Idle]
    /\ IF ~dir[o].exists \/ status \notin {"accepted", "rejected"}
       THEN \* FileNotFoundError or ValueError
            /\ jobs' = job_failed(jobs, o, q)
            /\ UNCHANGED <<dbVars, dir, committed>>
       ELSE /\ pkg' = IF pkg[o][sid].exists
                      THEN [pkg EXCEPT
                              ![o][sid].preserved = (status = "accepted"),
                              ![o][sid].rejected = (status = "rejected")]
                      ELSE pkg
            /\ obj' = IF status = "accepted"
                      THEN [obj EXCEPT ![o].preserved = TRUE] ELSE obj
            /\ dir' = rmtree(dir, o)
            /\ jobs' = job_finished(jobs, o, q)
            /\ committed' = [committed EXCEPT ![o][sid] = @ \cup {q}]
    /\ UNCHANGED <<idleVars, clock, lock, wflock, ops, remote>>


\* --- lock_queues(): redis_lock.Lock(redis, "workflow-lock", expire=900)
\* the blocking acquire returns once the key is free
lock_queues(op) == wflock = "free" /\ ops[op].pc # "cs"

\* lock.release() in "finally": only the holder's key is deleted
unlock_queues(op) == IF wflock = op THEN "free" ELSE wflock

\* the key expires after 900 seconds while its holder is still in the
\* guarded section (the lock is not renewed)
LockExpire ==
    /\ wflock \in Ops
    /\ ops[wflock].pc = "cs"
    /\ wflock' = "free"
    /\ UNCHANGED <<idleVars, dbVars, jobs, clock, run, lock, ops, dir, remote,
                   committed>>

\* --- enqueue_objects(object_count): snapshot of the enqueued ids
PlannerBegin ==
    /\ lock_queues("planner")
    /\ wflock' = "planner"
    /\ ops' = [ops EXCEPT !["planner"] =
                 [pc |-> "cs", ids |-> get_enqueued_object_ids(jobs)]]
    /\ UNCHANGED <<idleVars, dbVars, jobs, clock, run, lock, dir, remote,
                   committed>>

\* the query and the enqueue loop, then the release; the periodic call
\* asks for as many objects as there are
PlannerEnd ==
    /\ ops["planner"].pc = "cs"
    /\ \E order \in Orders(PlannerQuery(obj, pkg, delay, {})) :
          jobs' = enqueue_all(jobs, enqueue_objects(NObj, {}, order,
                                                    ops["planner"].ids))
    /\ ops' = [ops EXCEPT !["planner"] = OpIdle]
    /\ wflock' = unlock_queues("planner")
    /\ UNCHANGED <<idleVars, dbVars, clock, run, lock, dir, remote, committed>>

\* --- freeze_objects(object_ids, reason, source, delete_jobs)
\* WorkflowJobRunningError when a listed object has a started job
FreezeBegin(object_ids) ==
    /\ lock_queues("freeze")
    /\ object_ids \cap get_running_object_ids(jobs) = {}
    /\ wflock' = "freeze"
    /\ ops' = [ops EXCEPT !["freeze"] = [pc |-> "cs", ids |-> object_ids]]
    /\ UNCHANGED <<idleVars, dbVars, jobs, clock, run, lock, dir, remote,
                   committed>>

\* freeze_objects entering its section although a listed object is running
FreezeUnchecked(object_ids) ==
    /\ lock_queues("freeze")
    /\ object_ids \cap get_running_object_ids(jobs) # {}
    /\ wflock' = "freeze"
    /\ ops' = [ops EXCEPT !["freeze"] = [pc |-> "cs", ids |-> object_ids]]
    /\ UNCHANGED <<idleVars, dbVars, jobs, clock, run, lock, dir, remote,
                   committed>>

\* the call that finds a listed object running: WorkflowJobRunningError is
\* raised before the session is opened, "finally" releases the lock
FreezeRefused(object_ids) ==
    /\ lock_queues("freeze")
    /\ object_ids \cap get_running_object_ids(jobs) # {}
    /\ ops' = [ops EXCEPT !["freeze"] = [pc |-> "raised", ids |-> object_ids]]
    /\ UNCHANGED <<idleVars, dbVars, jobs, clock, run, lock, wflock, dir,
                   remote, committed>>

\* the latest packages freeze_objects cancels
packages_to_cancel(o) ==
    {sid \in SipIds :
        /\ obj[o].latest_package = sid
        /\ pkg[o][sid].exists
        /\ ~pkg[o][sid].preserved
        /\ ~pkg[o][sid].rejected
        /\ ~pkg[o][sid].cancelled}

\* UPDATE museum_objects SET frozen, freeze_reason, freeze_source
\* WHERE id IN object_ids
freeze_update(object_ids, reason, source) ==
    [o \in DOMAIN obj |->
        IF o \in object_ids
        THEN [obj[o] EXCEPT !.frozen = TRUE, !.freeze_reason = reason,
                            !.freeze_source = source]
        ELSE obj[o]]

\* a cancellation that skips the filter on preserved, rejected and cancelled
freeze_cancel_every_latest(object_ids) ==
    [o \in DOMAIN pkg |-> [sid \in SipIds |->
        IF o \in object_ids /\ obj[o].latest_package = sid
        THEN [pkg[o][sid] EXCEPT !.cancelled = TRUE]
        ELSE pkg[o][sid]]]

\* "package.cancelled = True" for each of packages_to_cancel
freeze_cancel(object_ids) ==
    [o \in DOMAIN pkg |-> [sid \in SipIds |->
        IF o \in object_ids /\ sid \in packages_to_cancel(o)
        THEN [pkg[o][sid] EXCEPT !.cancelled = TRUE]
        ELSE pkg[o][sid]]]

\* "if delete_jobs": delete_jobs_for_object_id for each listed id ...
freeze_delete_jobs(object_ids, delete_jobs) ==
    IF delete_jobs
    THEN [o \in DOMAIN jobs |->
            IF o \in object_ids THEN [q \in QueueType |-> NoJob] ELSE jobs[o]]
    ELSE jobs

\* ... and shutil.rmtree of its package directory
freeze_rmtree(object_ids, delete_jobs) ==
    IF delete_jobs
    THEN [o \in DOMAIN dir |-> IF o \in object_ids THEN NoDir ELSE dir[o]]
    ELSE dir

\* the returned (freeze_count, len(packages_to_cancel))
freeze_result(object_ids) ==
    <<Cardinality(object_ids \cap DOMAIN obj),
      Cardinality({o \in object_ids \cap DOMAIN obj :
                      packages_to_cancel(o) # {}})>>

FreezeEnd(delete_jobs) ==
    LET object_ids == ops["freeze"].ids IN
    /\ ops["freeze"].pc = "cs"
    /\ obj' = freeze_update(object_ids, "user", "user")
    /\ pkg' = freeze_cancel(object_ids)
    /\ jobs' = freeze_delete_jobs(object_ids, delete_jobs)
    /\ dir' = freeze_rmtree(object_ids, delete_jobs)
    /\ ops' = [ops EXCEPT !["freeze"] = OpIdle]
    /\ wflock' = unlock_queues("freeze")
    /\ UNCHANGED <<idleVars, clock, run, lock, remote, committed>>

\* --- unfreeze_objects(object_ids=..., enqueue=...)
UnfreezeBegin(object_ids) ==
    /\ lock_queues("unfreeze")
    /\ wflock' = "unfreeze"
    /\ ops' = [ops EXCEPT !["unfreeze"] = [pc |-> "cs", ids |-> object_ids]]
    /\ UNCHANGED <<idleVars, dbVars, jobs, clock, run, lock, dir, remote,
                   committed>>

\* an unfreeze that unlinks every latest package
remove_any_latest_package(o) ==
    obj[o].latest_package # NoLatest

remove_latest_package(o) ==
    /\ obj[o].latest_package # NoLatest
    /\ ~pkg[o][obj[o].latest_package].preserved

\* "if reason" / "if object_ids": an argument that was not given
NoReason == ""

\* the frozen objects the query of unfreeze_objects returns
unfreeze_query(reason, object_ids) ==
    {o \in DOMAIN obj :
        /\ obj[o].frozen
        /\ reason # NoReason => obj[o].freeze_reason = reason
        /\ object_ids # {} => o \in object_ids}

\* the loop over museum_objects: clear the freeze, drop an unpreserved
\* latest package
unfreeze_update(museum_objects) ==
    [o \in DOMAIN obj |->
        IF o \in museum_objects
        THEN [obj[o] EXCEPT
                !.frozen = FALSE, !.freeze_reason = "none",
                !.freeze_source = "none",
                !.latest_package =
                    IF remove_latest_package(o) THEN NoLatest ELSE @]
        ELSE obj[o]]

UnfreezeEnd(enqueue) ==
    LET museum_objects == unfreeze_query(NoReason, ops["unfreeze"].ids) IN
    /\ ops["unfreeze"].pc = "cs"
    /\ obj' = unfreeze_update(museum_objects)
    /\ jobs' = IF enqueue THEN enqueue_all(jobs, museum_objects) ELSE jobs
    /\ ops' = [ops EXCEPT !["unfreeze"] = OpIdle]
    /\ wflock' = unlock_queues("unfreeze")
    /\ UNCHANGED <<idleVars, pkg, clock, run, lock, dir, remote, committed>>

\* --- reset_workflow()
ResetBegin ==
    /\ lock_queues("reset")
    /\ wflock' = "reset"
    /\ ops' = [ops EXCEPT !["reset"] = [pc |-> "cs", ids |-> {}]]
    /\ UNCHANGED <<idleVars, dbVars, jobs, clock, run, lock, dir, remote,
                   committed>>

\* the query without "MuseumPackage.uploaded == False"
dangling_objects_any_upload ==
    {o \in DOMAIN obj :
        /\ obj[o].latest_package # NoLatest
        /\ LET p == pkg[o][obj[o].latest_package]
           IN  p.exists /\ (p.downloaded \/ p.packaged)}

\* objects whose latest package is downloaded or packaged but not uploaded
dangling_objects ==
    {o \in DOMAIN obj :
        /\ obj[o].latest_package # NoLatest
        /\ LET p == pkg[o][obj[o].latest_package]
           IN  p.exists /\ ~p.uploaded /\ (p.downloaded \/ p.packaged)}

\* reset_workflow without "mus_object.latest_package = None"
ResetEndKeepsLatest ==
    /\ ops["reset"].pc = "cs"
    /\ pkg' = [o \in DOMAIN pkg |-> [sid \in SipIds |->
                 IF o \in dangling_objects /\ obj[o].latest_package = sid
                 THEN NoPkg ELSE pkg[o][sid]]]
    /\ dir' = [o \in DOMAIN dir |->
                 IF o \in dangling_objects THEN NoDir ELSE dir[o]]
    /\ ops' = [ops EXCEPT !["reset"] = OpIdle]
    /\ wflock' = unlock_queues("reset")
    /\ UNCHANGED <<idleVars, obj, jobs, clock, run, lock, remote, committed>>

ResetEnd ==
    /\ ops["reset"].pc = "cs"
    /\ obj' = [o \in DOMAIN obj |->
                 IF o \in dangling_objects
                 THEN [obj[o] EXCEPT !.latest_package = NoLatest] ELSE obj[o]]
    /\ pkg' = [o \in DOMAIN pkg |-> [sid \in SipIds |->
                 IF o \in dangling_objects /\ obj[o].latest_package = sid
                 THEN NoPkg ELSE pkg[o][sid]]]
    /\ dir' = [o \in DOMAIN dir |->
                 IF o \in dangling_objects THEN NoDir ELSE dir[o]]
    /\ ops' = [ops EXCEPT !["reset"] = OpIdle]
    /\ wflock' = unlock_queues("reset")
    /\ UNCHANGED <<idleVars, jobs, clock, run, lock, remote, committed>>


\* --- reenqueue_object(object_id): takes no lock
\* NoResultFound without a latest package, ValueError when it was not
\* rejected or when the object still has a job
Reenqueue(o) ==
    /\ obj[o].latest_package # NoLatest
    /\ pkg[o][obj[o].latest_package].rejected
    /\ o \notin get_enqueued_object_ids(jobs)
    /\ obj' = [obj EXCEPT ![o].latest_package = NoLatest]
    /\ jobs' = enqueue_object(delete_jobs_for_object_id(jobs, o), o)
    /\ UNCHANGED <<idleVars, pkg, clock, run, lock, wflock, ops, dir, remote,
                   committed>>

\* --- sync_objects / sync_hashes: the CMS record changed
other_hash(h) == IF h = "h1" THEN "" ELSE "h1"

CmsSync(o) ==
    /\ obj[o].modified_date < MaxDate
    /\ obj' = [obj EXCEPT ![o].modified_date = @ + 1,
                          ![o].metadata_hash = other_hash(@)]
    /\ UNCHANGED <<idleVars, pkg, jobs, clock, run, lock, wflock, ops, dir,
                   remote, committed>>

\* a second of wall-clock time passes
Tick ==
    /\ clock < MaxClock
    /\ clock' = clock + 1
    /\ UNCHANGED <<idleVars, dbVars, jobs, run, lock, wflock, ops, dir,
                   remote, committed>>

\* DPRES finishes the ingest of an uploaded SIP and publishes its report
DpresReport(o, sid) ==
    /\ remote[o][sid] = "uploaded"
    /\ \E status \in {"accepted", "rejected"} :
          remote' = [remote EXCEPT ![o][sid] = status]
    /\ UNCHANGED <<idleVars, dbVars, jobs, clock, run, lock, wflock, ops, dir,
                   committed>>

\* an update_sip that marks the package and enqueues no confirm_sip
UpdateSipWithoutConfirm(o, sid) ==
    /\ remote[o][sid] \in {"accepted", "rejected"}
    /\ pkg[o][sid].exists
    /\ ~pkg[o][sid].preserved
    /\ ~pkg[o][sid].rejected
    /\ dir[o].exists
    /\ pkg' = [pkg EXCEPT
                 ![o][sid].preserved = (remote[o][sid] = "accepted") \/ @,
                 ![o][sid].rejected = (remote[o][sid] = "rejected") \/ @]
    /\ dir' = [dir EXCEPT ![o].status[sid] = remote[o][sid]]
    /\ UNCHANGED <<idleVars, obj, jobs, clock, run, lock, wflock, ops, remote,
                   committed>>

\* an update_sip whose query does not filter on preserved and rejected
UpdateSipUnfiltered(o, sid) ==
    /\ remote[o][sid] \in {"accepted", "rejected"}
    /\ pkg[o][sid].exists
    /\ dir[o].exists
    /\ pkg' = [pkg EXCEPT
                 ![o][sid].preserved = (remote[o][sid] = "accepted") \/ @,
                 ![o][sid].rejected = (remote[o][sid] = "rejected") \/ @]
    /\ dir' = [dir EXCEPT ![o].status[sid] = remote[o][sid]]
    /\ jobs' = enqueue_job(jobs, "confirm_sip", o, sid)
    /\ UNCHANGED <<idleVars, obj, clock, run, lock, wflock, ops, remote,
                   committed>>

\* --- sync_processed_sips: update_sip(sip, sftp, queue) for one report
\* The package is selected by sip_filename, preserved == False and
\* rejected == False.  The reports and the .status file are written under
\* PACKAGE_DIR/<object_id>; without that directory the session rolls back.
UpdateSip(o, sid) ==
    /\ remote[o][sid] \in {"accepted", "rejected"}
    /\ pkg[o][sid].exists
    /\ ~pkg[o][sid].preserved
    /\ ~pkg[o][sid].rejected
    /\ dir[o].exists
    /\ pkg' = [pkg EXCEPT
                 ![o][sid].preserved = (remote[o][sid] = "accepted") \/ @,
                 ![o][sid].rejected = (remote[o][sid] = "rejected") \/ @]
    /\ dir' = [dir EXCEPT ![o].status[sid] = remote[o][sid]]
    /\ jobs' = enqueue_job(jobs, "confirm_sip", o, sid)
    /\ UNCHANGED <<idleVars, obj, clock, run, lock, wflock, ops, remote,
                   committed>>

\* update_sip raises after the status file was written: at queue.enqueue,
\* or at the commit that follows it; the session rolls the marking back
UpdateSipFails(o, sid) ==
    /\ remote[o][sid] \in {"accepted", "rejected"}
    /\ pkg[o][sid].exists
    /\ ~pkg[o][sid].preserved
    /\ ~pkg[o][sid].rejected
    /\ dir[o].exists
    /\ dir' = [dir EXCEPT ![o].status[sid] = remote[o][sid]]
    /\ \E enqueued \in BOOLEAN :
          jobs' = IF enqueued THEN enqueue_job(jobs, "confirm_sip", o, sid)
                  ELSE jobs
    /\ UNCHANGED <<idleVars, dbVars, clock, run, lock, wflock, ops, remote,
                   committed>>

Next ==
    \/ \E o \in Objs, q \in QueueType : StartJob(o, q)
    \/ \E o \in Objs : DownloadBegin(o)
    \/ \E o \in Objs : DownloadPreservationError(o)
    \/ \E o \in Objs : DownloadOSError(o)
    \/ \E o \in Objs : DownloadOk(o)
    \/ \E o \in Objs : CreateSipBegin(o)
    \/ \E o \in Objs : CreateSipPreservationError(o)
    \/ \E o \in Objs : CreateSipOSError(o)
    \/ \E o \in Objs : CreateSipOk(o)
    \/ \E o \in Objs : SubmitSipBegin(o)
    \/ \E o \in Objs : SubmitSipUpload(o)
    \/ \E o \in Objs : SubmitSipEnd(o)
    \/ \E o \in Objs : ConfirmSipEnd(o)
    \/ PlannerBegin
    \/ PlannerEnd
    \/ \E ids \in SUBSET Objs \ {{}} : FreezeBegin(ids)
    \/ \E ids \in SUBSET Objs \ {{}} : FreezeRefused(ids)
    \/ \E delete_jobs \in BOOLEAN : FreezeEnd(delete_jobs)
    \/ \E o \in Objs : Reenqueue(o)
    \/ \E o \in Objs : CmsSync(o)
    \/ Tick
    \/ \E o \in Objs, sid \in SipIds : DpresReport(o, sid)
    \/ \E o \in Objs, sid \in SipIds : UpdateSip(o, sid)
    \/ \E o \in Objs, sid \in SipIds : UpdateSipFails(o, sid)

Spec == Init /\ [][Next]_vars


\* ------------------------- specification: the operations on workflow-lock
\* States of one object in which the operations are started, each left by
\* the pipeline: never enqueued; enqueued by the planner; downloaded with
\* create_sip waiting; frozen with its package cancelled and its jobs deleted.
DownloadedPkg ==
    [NoPkg EXCEPT !.exists = TRUE, !.downloaded = TRUE,
                  !.object_modified_date = NewObject.modified_date,
                  !.metadata_hash = NewObject.metadata_hash,
                  !.attachment_metadata_hash =
                      NewObject.attachment_metadata_hash]

NoJobs == [q \in QueueType |-> NoJob]

AdminSeeds ==
    { [obj |-> NewObject, pkg |-> NoPkg, jobs |-> NoJobs, dir |-> NoDir],
      [obj |-> NewObject, pkg |-> NoPkg,
       jobs |-> [NoJobs EXCEPT !["download_object"] =
                    [state |-> "pending", sip_id |-> 0]],
       dir |-> NoDir],
      [obj |-> [NewObject EXCEPT !.latest_package = 1],
       pkg |-> DownloadedPkg,
       jobs |-> [NoJobs EXCEPT !["create_sip"] =
                    [state |-> "pending", sip_id |-> 1]],
       dir |-> [NoDir EXCEPT !.exists = TRUE]],
      [obj |-> [NewObject EXCEPT !.latest_package = 1, !.frozen = TRUE,
                                 !.freeze_reason = "user",
                                 !.freeze_source = "user"],
       pkg |-> [DownloadedPkg EXCEPT !.cancelled = TRUE],
       jobs |-> NoJobs, dir |-> NoDir] }

InitAdmin ==
    /\ row = [o |-> CHOOSE x \in ObjectColumns : TRUE, p |-> NoPackageColumns,
              P |-> 0, U |-> 0]
    /\ verdict = Unevaluated
    /\ plan = NoPlan
    /\ delay = [P |-> MaxDelay, U |-> MaxDelay]
    /\ \E seed \in [Objs -> AdminSeeds] :
          /\ obj = [o \in Objs |-> seed[o].obj]
          /\ pkg = [o \in Objs |-> [sid \in SipIds |->
                      IF sid = 1 THEN seed[o].pkg ELSE NoPkg]]
          /\ jobs = [o \in Objs |-> seed[o].jobs]
          /\ dir = [o \in Objs |-> seed[o].dir]
    /\ clock = 1
    /\ run = [o \in Objs |-> [q \in QueueType |-> Idle]]
    /\ lock = [o \in Objs |-> "free"]
    /\ wflock = "free"
    /\ SyncIdle
    /\ ops = [op \in Ops |-> OpIdle]
    /\ remote = [o \in Objs |-> [sid \in SipIds |-> "none"]]
    /\ committed = [o \in Objs |-> [sid \in SipIds |-> {}]]

NextAdmin ==
    \/ LockExpire
    \/ PlannerBegin
    \/ PlannerEnd
    \/ \E ids \in SUBSET Objs \ {{}} : FreezeBegin(ids)
    \/ \E delete_jobs \in BOOLEAN : FreezeEnd(delete_jobs)
    \/ \E ids \in SUBSET Objs \ {{}} : UnfreezeBegin(ids)
    \/ \E enqueue \in BOOLEAN : UnfreezeEnd(enqueue)
    \/ ResetBegin
    \/ ResetEnd

SpecAdmin == InitAdmin /\ [][NextAdmin]_vars


\* --------------- specification: the pipeline with the recovery operations
\* workers, planner, DPRES and sync_processed_sips together with
\* reset_workflow, unfreeze_objects and reenqueue_object; objects are frozen
\* here by freeze_running_object only
NextRecovery ==
    \/ \E o \in Objs, q \in QueueType : StartJob(o, q)
    \/ \E o \in Objs : DownloadBegin(o)
    \/ \E o \in Objs : DownloadPreservationError(o)
    \/ \E o \in Objs : DownloadOSError(o)
    \/ \E o \in Objs : DownloadOk(o)
    \/ \E o \in Objs : CreateSipBegin(o)
    \/ \E o \in Objs : CreateSipPreservationError(o)
    \/ \E o \in Objs : CreateSipOSError(o)
    \/ \E o \in Objs : CreateSipOk(o)
    \/ \E o \in Objs : SubmitSipBegin(o)
    \/ \E o \in Objs : SubmitSipUpload(o)
    \/ \E o \in Objs : SubmitSipEnd(o)
    \/ \E o \in Objs : ConfirmSipEnd(o)
    \/ PlannerBegin
    \/ PlannerEnd
    \/ \E ids \in SUBSET Objs \ {{}} : UnfreezeBegin(ids)
    \/ \E enqueue \in BOOLEAN : UnfreezeEnd(enqueue)
    \/ ResetBegin
    \/ ResetEnd
    \/ \E o \in Objs : Reenqueue(o)
    \/ Tick
    \/ \E o \in Objs, sid \in SipIds : DpresReport(o, sid)
    \/ \E o \in Objs, sid \in SipIds : UpdateSip(o, sid)

SpecRecovery == Init /\ [][NextRecovery]_vars


\* ------------------------- specification: one freeze, then one unfreeze
\* an id of object_ids that no row of museum_objects has
AbsentId == 0

\* States of one object when freeze_objects is called, each left by the
\* pipeline: never packaged; downloaded; preserved; rejected; frozen by a
\* failed job with its package cancelled; unfrozen after a job of an older
\* package had frozen it.
FreezeSeeds ==
    { [obj |-> NewObject, pkg |-> NoPkg, dir |-> NoDir],
      [obj |-> [NewObject EXCEPT !.latest_package = 1],
       pkg |-> DownloadedPkg, dir |-> [NoDir EXCEPT !.exists = TRUE]],
      [obj |-> [NewObject EXCEPT !.latest_package = 1, !.preserved = TRUE],
       pkg |-> [DownloadedPkg EXCEPT !.packaged = TRUE, !.uploaded = TRUE,
                                     !.preserved = TRUE],
       dir |-> NoDir],
      [obj |-> [NewObject EXCEPT !.latest_package = 1],
       pkg |-> [DownloadedPkg EXCEPT !.packaged = TRUE, !.uploaded = TRUE,
                                     !.rejected = TRUE],
       dir |-> NoDir],
      [obj |-> [NewObject EXCEPT !.latest_package = 1, !.frozen = TRUE,
                                 !.freeze_reason = "error",
                                 !.freeze_source = "automatic"],
       pkg |-> [DownloadedPkg EXCEPT !.cancelled = TRUE],
       dir |-> [NoDir EXCEPT !.exists = TRUE]],
      [obj |-> NewObject, pkg |-> DownloadedPkg,
       dir |-> [NoDir EXCEPT !.exists = TRUE]] }

\* the jobs of one object: none, one waiting, one failed, one executing
FreezeJobs ==
    { NoJobs,
      [NoJobs EXCEPT !["download_object"] = [state |-> "pending", sip_id |-> 0]],
      [NoJobs EXCEPT !["create_sip"] = [state |-> "failed", sip_id |-> 1]],
      [NoJobs EXCEPT !["submit_sip"] = [state |-> "started", sip_id |-> 1]] }

\* the reason and source arguments of freeze_objects
FreezeReasons == {"user", "error"}
FreezeSources == {"user", "automatic"}

NoCall == [done |-> FALSE, call |-> "none"]

InitFreeze ==
    /\ row = [o |-> CHOOSE x \in ObjectColumns : TRUE, p |-> NoPackageColumns,
              P |-> 0, U |-> 0]
    /\ verdict = Unevaluated
    /\ plan = NoCall
    /\ delay = [P |-> MaxDelay, U |-> MaxDelay]
    /\ \E seed \in [1..NObjPlan -> FreezeSeeds] :
          /\ obj = [o \in 1..NObjPlan |-> seed[o].obj]
          /\ pkg = [o \in 1..NObjPlan |-> [sid \in SipIds |->
                      IF sid = 1 THEN seed[o].pkg ELSE NoPkg]]
          /\ dir = [o \in 1..NObjPlan |-> seed[o].dir]
    /\ jobs \in [1..NObjPlan -> FreezeJobs]
    /\ clock = 1
    /\ run = [o \in 1..NObjPlan |-> [q \in QueueType |-> Idle]]
    /\ lock = [o \in 1..NObjPlan |-> "free"]
    /\ wflock = "free"
    /\ SyncIdle
    /\ ops = [op \in Ops |-> OpIdle]
    /\ remote = [o \in 1..NObjPlan |-> [sid \in SipIds |-> "none"]]
    /\ committed = [o \in 1..NObjPlan |-> [sid \in SipIds |-> {}]]

\* one call freeze_objects(object_ids, reason, source, delete_jobs) that
\* returns, run to its end under lock_queues()
FreezeObjectsCall ==
    /\ plan.call = "none"
    /\ wflock = "free"
    /\ \E object_ids \in SUBSET (DOMAIN obj \cup {AbsentId}) \ {{}} :
       \E reason \in FreezeReasons, source \in FreezeSources :
       \E delete_jobs \in BOOLEAN :
          /\ object_ids \cap get_running_object_ids(jobs) = {}
          /\ obj' = freeze_update(object_ids, reason, source)
          /\ pkg' = freeze_cancel(object_ids)
          /\ jobs' = freeze_delete_jobs(object_ids, delete_jobs)
          /\ dir' = freeze_rmtree(object_ids, delete_jobs)
          /\ plan' = [done |-> TRUE, call |-> "freeze",
                      object_ids |-> object_ids, reason |-> reason,
                      source |-> source, delete_jobs |-> delete_jobs,
                      obj_before |-> obj, pkg_before |-> pkg,
                      jobs_before |-> jobs, dir_before |-> dir,
                      result |-> freeze_result(object_ids)]
    /\ UNCHANGED <<pendingVars, delay, clock, run, lock, wflock, ops, remote,
                   committed, syncVars>>

\* the call unfreeze_objects(reason, object_ids, enqueue) that follows it
UnfreezeObjectsCall ==
    /\ plan.call = "freeze"
    /\ wflock = "free"
    /\ \E object_ids \in SUBSET (DOMAIN obj \cup {AbsentId}) :
       \E reason \in FreezeReasons \cup {NoReason} :
       \E enqueue \in BOOLEAN :
          LET museum_objects == unfreeze_query(reason, object_ids) IN
          \* ValueError when neither is given
          /\ reason # NoReason \/ object_ids # {}
          /\ obj' = unfreeze_update(museum_objects)
          /\ jobs' = IF enqueue THEN enqueue_all(jobs, museum_objects)
                     ELSE jobs
          /\ plan' = [done |-> TRUE, call |-> "unfreeze",
                      object_ids |-> object_ids, reason |-> reason,
                      enqueue |-> enqueue,
                      frozen_ids |-> plan.object_ids,
                      frozen_reason |-> plan.reason,
                      obj_before |-> plan.obj_before,
                      pkg_before |-> plan.pkg_before,
                      result |-> Cardinality(museum_objects)]
    /\ UNCHANGED <<pendingVars, delay, pkg, clock, run, lock, wflock, ops,
                   dir, remote, committed, syncVars>>

NextFreeze ==
    \/ FreezeObjectsCall
    \/ UnfreezeObjectsCall

SpecFreeze == InitFreeze /\ [][NextFreeze]_vars

\* ------------------------------- specification: confirm_sip on its inputs
\* what <sip_filename>.status may hold when confirm_sip reads it: the two
\* words update_sip writes, other text, or no file
StatusContents == {"accepted", "rejected", "invalid", "none"}

\* the package confirm_sip is called for: uploaded, and marked by update_sip
\* when the status file is its work
SubmittedPkg(status) ==
    [DownloadedPkg EXCEPT !.packaged = TRUE, !.uploaded = TRUE,
                          !.preserved = (status = "accepted"),
                          !.rejected = (status = "rejected")]

\* an earlier package of the object that was preserved
PreservedPkg ==
    [DownloadedPkg EXCEPT !.packaged = TRUE, !.uploaded = TRUE,
                          !.preserved = TRUE]

InitConfirm ==
    /\ row = [o |-> CHOOSE x \in ObjectColumns : TRUE, p |-> NoPackageColumns,
              P |-> 0, U |-> 0]
    /\ verdict = Unevaluated
    /\ plan = NoPlan
    /\ delay = [P |-> MaxDelay, U |-> MaxDelay]
    /\ \E status \in [1..NObjPlan -> StatusContents] :
       \E before \in [1..NObjPlan -> BOOLEAN] :
          /\ obj = [o \in 1..NObjPlan |->
                      [NewObject EXCEPT !.latest_package = 1,
                                        !.preserved = before[o]]]
          /\ pkg = [o \in 1..NObjPlan |-> [sid \in SipIds |->
                      IF sid = 1 THEN SubmittedPkg(status[o])
                      ELSE IF before[o] /\ sid = 2 THEN PreservedPkg
                      ELSE NoPkg]]
          /\ dir = [o \in 1..NObjPlan |->
                      [NoDir EXCEPT !.exists = TRUE,
                                    !.status[1] = status[o]]]
          /\ remote = [o \in 1..NObjPlan |-> [sid \in SipIds |->
                         IF sid = 1 /\ status[o] \in {"accepted", "rejected"}
                         THEN status[o]
                         ELSE IF sid = 1 THEN "uploaded" ELSE "none"]]
    /\ jobs = [o \in 1..NObjPlan |->
                 [NoJobs EXCEPT !["confirm_sip"] =
                     [state |-> "pending", sip_id |-> 1]]]
    /\ clock = 1
    /\ run = [o \in 1..NObjPlan |-> [q \in QueueType |-> Idle]]
    /\ lock = [o \in 1..NObjPlan |-> "free"]
    /\ wflock = "free"
    /\ SyncIdle
    /\ ops = [op \in Ops |-> OpIdle]
    /\ committed = [o \in 1..NObjPlan |-> [sid \in SipIds |->
                      IF sid = 1
                      THEN {"download_object", "create_sip", "submit_sip"}
                      ELSE {}]]

NextConfirm ==
    \/ \E o \in DOMAIN obj : StartJob(o, "confirm_sip")
    \/ \E o \in DOMAIN obj : ConfirmSipEnd(o)

SpecConfirm == InitConfirm /\ [][NextConfirm]_vars


\* -------------------------------- specification: submit_sip and its re-runs
\* the package submit_sip is called for: packaged, its upload recorded or not
PackagedPkg(uploaded) ==
    [DownloadedPkg EXCEPT !.packaged = TRUE, !.uploaded = uploaded]

\* what an earlier run of the job left: nothing sent; the SIP sent but the
\* run ended before the second session; the upload recorded
SubmitSeeds ==
    { [sent |-> FALSE, uploaded |-> FALSE],
      [sent |-> TRUE, uploaded |-> FALSE],
      [sent |-> TRUE, uploaded |-> TRUE] }

InitSubmit ==
    /\ row = [o |-> CHOOSE x \in ObjectColumns : TRUE, p |-> NoPackageColumns,
              P |-> 0, U |-> 0]
    /\ verdict = Unevaluated
    /\ plan = NoPlan
    /\ delay = [P |-> MaxDelay, U |-> MaxDelay]
    /\ obj = [o \in 1..NObjPlan |-> [NewObject EXCEPT !.latest_package = 1]]
    /\ \E seed \in [1..NObjPlan -> SubmitSeeds] :
          /\ pkg = [o \in 1..NObjPlan |-> [sid \in SipIds |->
                      IF sid = 1 THEN PackagedPkg(seed[o].uploaded)
                      ELSE NoPkg]]
          /\ remote = [o \in 1..NObjPlan |-> [sid \in SipIds |->
                         IF sid = 1 /\ seed[o].sent THEN "uploaded"
                         ELSE "none"]]
          /\ committed = [o \in 1..NObjPlan |-> [sid \in SipIds |->
                            IF sid # 1 THEN {}
                            ELSE IF seed[o].uploaded
                            THEN {"download_object", "create_sip",
                                  "submit_sip"}
                            ELSE {"download_object", "create_sip"}]]
    /\ dir = [o \in 1..NObjPlan |-> [NoDir EXCEPT !.exists = TRUE]]
    /\ jobs = [o \in 1..NObjPlan |->
                 [NoJobs EXCEPT !["submit_sip"] =
                     [state |-> "pending", sip_id |-> 1]]]
    /\ clock = 1
    /\ run = [o \in 1..NObjPlan |-> [q \in QueueType |-> Idle]]
    /\ lock = [o \in 1..NObjPlan |-> "free"]
    /\ wflock = "free"
    /\ SyncIdle
    /\ ops = [op \in Ops |-> OpIdle]

\* the failed job is run again with the same arguments
RerunSubmitSip(o) ==
    /\ jobs[o]["submit_sip"].state = "failed"
    /\ jobs' = [jobs EXCEPT ![o]["submit_sip"].state = "pending"]
    /\ UNCHANGED <<idleVars, dbVars, clock, run, lock, wflock, ops, dir,
                   remote, committed>>

NextSubmit ==
    \/ \E o \in DOMAIN obj : StartJob(o, "submit_sip")
    \/ \E o \in DOMAIN obj : SubmitSipBegin(o)
    \/ \E o \in DOMAIN obj : SubmitSipUpload(o)
    \/ \E o \in DOMAIN obj : SubmitSipEnd(o)
    \/ \E o \in DOMAIN obj : RerunSubmitSip(o)

SpecSubmit == InitSubmit /\ [][NextSubmit]_vars


\* ------------------- specification: sync_objects and sync_attachments
\* CHUNK_SIZE of both scripts
SyncChunkSize == 2
\* how often one synchronisation run is interrupted from outside
MaxInterrupts == 2

\* the variables of the pipeline, which the sync scripts leave alone
pipelineVars ==
    <<row, verdict, pkg, jobs, delay, plan, run, lock, wflock, ops, dir,
      remote, committed>>

\* MuseumObject(id, title, modified_date, created_date, metadata_hash)
CreatedObject(r) ==
    [NewObject EXCEPT !.modified_date = r.modified_date,
                      !.created_date = r.created_date,
                      !.metadata_hash = r.xml_hash,
                      !.attachment_metadata_hash = NullHash]

\* bulk_create_or_get: a row inserted with its id only
BulkCreatedObject ==
    [NewObject EXCEPT !.modified_date = NullDate, !.created_date = NullDate,
                      !.metadata_hash = NullHash,
                      !.attachment_metadata_hash = NullHash]

BulkCreatedAttachment ==
    [modified_date |-> NullDate, metadata_hash |-> NullHash]

\* what MuseumPlus lists: three objects, the last without dates, and two
\* multimedia records that both belong to object 1
UpstreamObjects ==
    { << [id |-> 1, modified_date |-> d, created_date |-> 0,
          xml_hash |-> "h1", multimedia_ids |-> {1, 2}],
         [id |-> 2, modified_date |-> 1, created_date |-> 0,
          xml_hash |-> "h1", multimedia_ids |-> {}],
         [id |-> 3, modified_date |-> NullDate, created_date |-> NullDate,
          xml_hash |-> "h1", multimedia_ids |-> {}] >> : d \in 1..MaxDate }

UpstreamMultimedia ==
    { << [id |-> 1, modified_date |-> d, xml_hash |-> "h1",
          object_ids |-> {1, 4}],
         [id |-> 2, modified_date |-> MaxDate, xml_hash |-> "h1",
          object_ids |-> {1}] >> : d \in {NullDate} \cup (1..MaxDate) }

\* iterate_objects / iterate_multimedia(offset, modify_date_gte): the
\* records modified since the date, in the order MuseumPlus lists them
iterate(records, modify_date_gte) ==
    SelectSeq(records,
              LAMBDA r : \/ modify_date_gte = NullDate
                         \/ /\ r.modified_date # NullDate
                            /\ r.modified_date >= modify_date_gte)

\* an iterator opened one record past the index
chunk_results_past_offset(records, r) ==
    LET all == iterate(records, r.modify_date_gte)
        to == IF r.index + SyncChunkSize < Len(all)
              THEN r.index + SyncChunkSize ELSE Len(all)
    IN  SubSeq(all, r.index + 2, to)

\* one pass of "async for result in object_iter": up to CHUNK_SIZE results
\* after the index reached so far
chunk_results(records, r) ==
    LET all == iterate(records, r.modify_date_gte)
        to == IF r.index + SyncChunkSize < Len(all)
              THEN r.index + SyncChunkSize ELSE Len(all)
    IN  SubSeq(all, r.index + 1, to)

Range(seq) == {seq[i] : i \in DOMAIN seq}

\* a lookup that stamps start_sync_date on every call
get_sync_status_restamped(name) ==
    [sync_status[name] EXCEPT !.start_sync_date = clock]

\* _get_sync_status: the row, created if missing, start_sync_date set to
\* now if it was NULL
get_sync_status(name) ==
    IF sync_status[name].start_sync_date = NullDate
    THEN [sync_status[name] EXCEPT !.start_sync_date = clock]
    ELSE sync_status[name]

InitSync ==
    /\ row = [o |-> CHOOSE x \in ObjectColumns : TRUE, p |-> NoPackageColumns,
              P |-> 0, U |-> 0]
    /\ verdict = Unevaluated
    /\ plan = NoPlan
    /\ delay = [P |-> MaxDelay, U |-> MaxDelay]
    /\ obj = <<>> /\ pkg = <<>> /\ jobs = <<>>
    /\ clock = 1
    /\ run = <<>> /\ lock = <<>> /\ dir = <<>> /\ remote = <<>>
    /\ committed = <<>>
    /\ wflock = "free"
    /\ ops = [op \in Ops |-> OpIdle]
    /\ sync_status = [s \in Scripts |-> NoStatus]
    /\ sync_run = [s \in Scripts |-> SyncStopped]
    /\ attachments = <<>>
    /\ links = {}
    /\ \E objects \in UpstreamObjects, multimedia \in UpstreamMultimedia :
          upstream = [objects |-> objects, multimedia |-> multimedia]
    /\ cycle = [s \in Scripts |-> NoCycle]

\* the script is started with save_progress: get_sync_status, then the
\* iterator is opened at the saved offset and prev_start_sync_date
SyncStart(s) ==
    LET st == get_sync_status(s) IN
    /\ sync_run[s].pc = "idle"
    /\ sync_status' = [sync_status EXCEPT ![s] = st]
    /\ sync_run' = [sync_run EXCEPT ![s] =
                      [pc |-> "chunk", index |-> st.offset,
                       all_iterated |-> FALSE,
                       modify_date_gte |-> st.prev_start_sync_date]]
    /\ cycle' = [cycle EXCEPT ![s] =
                   IF @.first_start = NullDate \/ @.completed
                   THEN [first_start |-> clock, interrupts |-> 0,
                         completed |-> FALSE]
                   ELSE @]
    /\ UNCHANGED <<pipelineVars, obj, clock, attachments, links, upstream>>

\* stmt_b without its guard
incoming_modified_date(existing, incoming) == incoming

\* stmt_b: modified_date is replaced when it is NULL or older than the
\* incoming one (a comparison with an incoming NULL is not true)
newer_modified_date(existing, incoming) ==
    IF existing = NullDate THEN incoming
    ELSE IF incoming # NullDate /\ existing < incoming THEN incoming
    ELSE existing

\* sync_objects: one chunk is read and its session commits
SyncObjectsChunk ==
    LET s == "sync_objects"
        results == chunk_results(upstream.objects, sync_run[s])
        object_ids == {r.id : r \in Range(results)}
        result(o) == CHOOSE r \in Range(results) : r.id = o
        attachment_ids == UNION {r.multimedia_ids : r \in Range(results)}
    IN
    /\ sync_run[s].pc = "chunk"
    /\ obj' = [o \in DOMAIN obj \cup object_ids |->
                 IF o \notin object_ids THEN obj[o]
                 ELSE IF o \in DOMAIN obj
                 THEN [obj[o] EXCEPT
                         !.metadata_hash = result(o).xml_hash,
                         !.modified_date =
                             newer_modified_date(@, result(o).modified_date)]
                 ELSE CreatedObject(result(o))]
    /\ attachments' = [a \in DOMAIN attachments \cup attachment_ids |->
                         IF a \in DOMAIN attachments THEN attachments[a]
                         ELSE BulkCreatedAttachment]
    /\ links' = {l \in links : l[1] \notin object_ids}
                \cup {l \in object_ids \X attachment_ids :
                         l[2] \in result(l[1]).multimedia_ids}
    /\ sync_run' = [sync_run EXCEPT
                      ![s].pc = "offset",
                      ![s].index = @ + Len(results),
                      ![s].all_iterated = (results = <<>>)]
    /\ UNCHANGED <<pipelineVars, clock, sync_status, upstream, cycle>>

\* "if object_date_needs_update" over the linked objects, in the order the
\* rows are read; comparing a date with an attachment's NULL date raises
\* TypeError
RECURSIVE propagate_dates(_, _)
propagate_dates(d, todo) ==
    IF todo = <<>> \/ d.raised THEN d
    ELSE LET o == Head(todo)[1]
             incoming == Head(todo)[2]
         IN  IF d.date[o] = NullDate
             THEN propagate_dates([d EXCEPT !.date[o] = incoming], Tail(todo))
             ELSE IF incoming = NullDate
             THEN [d EXCEPT !.raised = TRUE]
             ELSE IF d.date[o] < incoming
             THEN propagate_dates([d EXCEPT !.date[o] = incoming], Tail(todo))
             ELSE propagate_dates(d, Tail(todo))

\* sync_attachments: one chunk is read; its session commits, or rolls back
\* when the propagation raises and the script ends
SyncAttachmentsChunk ==
    LET s == "sync_attachments"
        results == chunk_results(upstream.multimedia, sync_run[s])
        attachment_ids == {r.id : r \in Range(results)}
        result(a) == CHOOSE r \in Range(results) : r.id = a
        object_ids == UNION {r.object_ids : r \in Range(results)}
        objects == [o \in DOMAIN obj \cup object_ids |->
                      IF o \in DOMAIN obj THEN obj[o] ELSE BulkCreatedObject]
        pairs == {<<o, result(a).modified_date, a>> :
                     <<o, a>> \in {l \in object_ids \X attachment_ids :
                                      l[1] \in result(l[2]).object_ids}}
    IN
    /\ sync_run[s].pc = "chunk"
    /\ \E order \in Orders(pairs) :
          LET d == propagate_dates(
                       [raised |-> FALSE,
                        date |-> [o \in DOMAIN objects |->
                                     objects[o].modified_date]], order)
          IN  IF d.raised
              THEN /\ sync_run' = [sync_run EXCEPT ![s] = SyncStopped]
                   /\ UNCHANGED <<obj, attachments, links>>
              ELSE /\ obj' = [o \in DOMAIN objects |->
                                [objects[o] EXCEPT
                                    !.modified_date = d.date[o]]]
                   /\ attachments' =
                         [a \in DOMAIN attachments \cup attachment_ids |->
                             IF a \in attachment_ids
                             THEN [modified_date |-> result(a).modified_date,
                                   metadata_hash |-> result(a).xml_hash]
                             ELSE attachments[a]]
                   /\ links' = {l \in links : l[2] \notin attachment_ids}
                               \cup {<<p[1], p[3]>> : p \in pairs}
                   /\ sync_run' = [sync_run EXCEPT
                                     ![s].pc = "offset",
                                     ![s].index = @ + Len(results),
                                     ![s].all_iterated = (results = <<>>)]
    /\ UNCHANGED <<pipelineVars, clock, sync_status, upstream, cycle>>

\* update_offset(name, offset=index)
UpdateOffset(s) ==
    /\ sync_run[s].pc = "offset"
    /\ sync_status' = [sync_status EXCEPT ![s] =
                         [get_sync_status(s) EXCEPT
                             !.offset = sync_run[s].index]]
    /\ sync_run' = [sync_run EXCEPT ![s].pc =
                      IF sync_run[s].all_iterated THEN "finish" ELSE "chunk"]
    /\ UNCHANGED <<pipelineVars, obj, clock, attachments, links, upstream,
                   cycle>>

\* finish_sync_progress(name)
finish_sync_progress(name) ==
    LET st == get_sync_status(name) IN
    [offset |-> 0, prev_start_sync_date |-> st.start_sync_date,
     start_sync_date |-> NullDate]

\* "if all_iterated": finish_sync_progress, and the script ends
FinishSync(s) ==
    /\ sync_run[s].pc = "finish"
    /\ sync_status' = [sync_status EXCEPT ![s] = finish_sync_progress(s)]
    /\ sync_run' = [sync_run EXCEPT ![s] = SyncStopped]
    /\ cycle' = [cycle EXCEPT ![s].completed = TRUE]
    /\ UNCHANGED <<pipelineVars, obj, clock, attachments, links, upstream>>

\* the script is stopped or crashes between two of its steps
Interrupt(s) ==
    /\ sync_run[s].pc # "idle"
    /\ cycle[s].interrupts < MaxInterrupts
    /\ sync_run' = [sync_run EXCEPT ![s] = SyncStopped]
    /\ cycle' = [cycle EXCEPT ![s].interrupts = @ + 1]
    /\ UNCHANGED <<pipelineVars, obj, clock, sync_status, attachments, links,
                   upstream>>

NextSync ==
    \/ \E s \in Scripts : SyncStart(s)
    \/ SyncObjectsChunk
    \/ SyncAttachmentsChunk
    \/ \E s \in Scripts : UpdateOffset(s)
    \/ \E s \in Scripts : FinishSync(s)
    \/ \E s \in Scripts : Interrupt(s)
    \/ Tick

SpecSync == InitSync /\ [][NextSync]_vars


\* ------------------------------------------------------------ sync_hashes
\* scripts/sync_hashes.py: one scoped_session over all objects in id order,
\* read CHUNK_SIZE at a time, committed when the loop ends.  Attachment rows
\* and links are changed by the other sync scripts at any time.

\* CHUNK_SIZE
HashChunkSize == 2

\* the attachment hashes, in the order hashes.sort() gives them
AttachmentHashes == <<"a", "b">>

HashRank(h) == CHOOSE i \in DOMAIN AttachmentHashes : AttachmentHashes[i] = h

\* b"".join(...)
RECURSIVE join(_)
join(hashes) ==
    IF hashes = <<>> THEN "" ELSE Head(hashes) \o join(Tail(hashes))

\* hashlib.sha256(data).hexdigest(): a digest is told apart from every
\* attachment hash and from the empty string, and differs when data does
sha256(data) == "sha256:" \o data

\* a digest over the hashes in the order they were read
get_metadata_hash_unsorted(hashes) == sha256(join(hashes))

\* get_metadata_hash_for_attachments, over the attachments' hashes
get_metadata_hash_for_attachments(hashes) ==
    sha256(join(SortSeq(hashes, LAMBDA x, y : HashRank(x) < HashRank(y))))

\* the value an object's attachment_metadata_hash has after the loop body:
\* unchanged when an attachment hash is missing (skipped) or when the
\* computed value equals the stored one
new_attachment_metadata_hash(stored, hashes) ==
    IF hashes # <<>> /\ \E i \in DOMAIN hashes : hashes[i] = NullHash
    THEN stored
    ELSE IF hashes = <<>> THEN ""
    ELSE get_metadata_hash_for_attachments(hashes)

\* the link sets the other scripts switch between: object 1 with two
\* attachments, object 2 with none, object 3 with one or two
HashLinkSets ==
    { {<<1, 1>>, <<1, 2>>, <<3, 3>>},
      {<<1, 1>>, <<1, 2>>, <<3, 2>>, <<3, 3>>} }

\* consecutive undisturbed runs that are followed
MaxQuietRuns == 2

HashesStopped == [pc |-> "idle", current_id |-> 0, pending |-> <<>>,
                  clean |-> FALSE, quiet |-> 0]

InitHashes ==
    /\ row = [o |-> CHOOSE x \in ObjectColumns : TRUE, p |-> NoPackageColumns,
              P |-> 0, U |-> 0]
    /\ verdict = Unevaluated
    /\ plan = NoPlan
    /\ delay = [P |-> MaxDelay, U |-> MaxDelay]
    /\ obj = [o \in 1..3 |-> BulkCreatedObject]
    /\ pkg = <<>> /\ jobs = <<>>
    /\ clock = 1
    /\ run = <<>> /\ lock = <<>> /\ dir = <<>> /\ remote = <<>>
    /\ committed = <<>>
    /\ wflock = "free"
    /\ ops = [op \in Ops |-> OpIdle]
    /\ sync_status = [s \in Scripts |-> NoStatus]
    /\ sync_run = [s \in {"sync_hashes"} |-> HashesStopped]
    /\ attachments \in
          [1..3 -> {[BulkCreatedAttachment EXCEPT !.metadata_hash = h] :
                       h \in {NullHash, "a"}}]
    /\ links \in HashLinkSets
    /\ upstream = [objects |-> <<>>, multimedia |-> <<>>]
    /\ cycle = [s \in Scripts |-> NoCycle]

\* "with scoped_session() as db: query = iterate_...(db)"
SyncHashesStart ==
    LET r == sync_run["sync_hashes"] IN
    /\ r.pc = "idle"
    /\ r.quiet < MaxQuietRuns
    /\ sync_run' = [sync_run EXCEPT !["sync_hashes"] =
                      [r EXCEPT !.pc = "chunk", !.current_id = 0,
                                !.pending = <<>>, !.clean = TRUE]]
    /\ UNCHANGED <<pipelineVars, obj, clock, sync_status, attachments, links,
                   upstream, cycle>>

\* one pass of "while True": up to CHUNK_SIZE objects above current_id, each
\* with its attachments in the order the association query returned them;
\* the UPDATE of the chunk is executed, and committed with the others when
\* the iterator is exhausted
SyncHashesChunk ==
    LET r == sync_run["sync_hashes"]
        left == {o \in DOMAIN obj : o > r.current_id}
        ids == {o \in left :
                   Cardinality({x \in left : x < o}) < HashChunkSize}
        all_iterated == Cardinality(left) < HashChunkSize
        attached(o) == {l[2] : l \in {x \in links : x[1] = o}}
    IN
    /\ r.pc = "chunk"
    /\ \E read \in [ids -> UNION {Orders(attached(o)) : o \in ids}] :
          /\ \A o \in ids : read[o] \in Orders(attached(o))
          /\ LET hashes(o) ==
                     [i \in DOMAIN read[o] |->
                         attachments[read[o][i]].metadata_hash]
                 value(o) ==
                     new_attachment_metadata_hash(
                         obj[o].attachment_metadata_hash, hashes(o))
                 update_params ==
                     {o \in ids : value(o) # obj[o].attachment_metadata_hash}
                 pending ==
                     [o \in DOMAIN r.pending \cup update_params |->
                         IF o \in update_params THEN value(o)
                         ELSE r.pending[o]]
             IN  IF all_iterated
                 THEN /\ obj' = [o \in DOMAIN obj |->
                                   IF o \in DOMAIN pending
                                   THEN [obj[o] EXCEPT
                                           !.attachment_metadata_hash =
                                               pending[o]]
                                   ELSE obj[o]]
                      /\ sync_run' = [sync_run EXCEPT !["sync_hashes"] =
                                        [r EXCEPT !.pc = "idle",
                                                  !.pending = pending,
                                                  !.quiet = IF r.clean
                                                            THEN @ + 1
                                                            ELSE 0]]
                 ELSE /\ obj' = obj
                      /\ sync_run' = [sync_run EXCEPT !["sync_hashes"] =
                                        [r EXCEPT !.pending = pending,
                                                  !.current_id =
                                                      CHOOSE m \in ids :
                                                        \A x \in ids : x <= m]]
    /\ UNCHANGED <<pipelineVars, clock, sync_status, attachments, links,
                   upstream, cycle>>

\* sync_attachments stores another metadata_hash for an attachment
AttachmentHashChanges(a, h) ==
    /\ attachments[a].metadata_hash # h
    /\ attachments' = [attachments EXCEPT ![a].metadata_hash = h]
    /\ sync_run' = [sync_run EXCEPT !["sync_hashes"].clean = FALSE,
                                    !["sync_hashes"].quiet = 0]
    /\ UNCHANGED <<pipelineVars, obj, clock, sync_status, links, upstream,
                   cycle>>

\* sync_objects and sync_attachments replace an object's attachment list
LinksChange(L) ==
    /\ links # L
    /\ links' = L
    /\ sync_run' = [sync_run EXCEPT !["sync_hashes"].clean = FALSE,
                                    !["sync_hashes"].quiet = 0]
    /\ UNCHANGED <<pipelineVars, obj, clock, sync_status, attachments,
                   upstream, cycle>>

NextHashes ==
    \/ SyncHashesStart
    \/ SyncHashesChunk
    \/ \E a \in DOMAIN attachments :
          \E h \in {NullHash} \cup Range(AttachmentHashes) :
             AttachmentHashChanges(a, h)
    \/ \E L \in HashLinkSets : LinksChange(L)

SpecHashes == InitHashes /\ [][NextHashes]_vars


\* ------------------------------------- specification: reset_workflow alone
\* States of one object when reset_workflow is called: no package, with or
\* without a leftover directory; downloaded; packaged; uploaded; preserved
\* with its directory gone; a second package downloaded after a preserved
\* one; downloaded with the directory missing; frozen with a cancelled
\* download.
ResetSeeds ==
    LET one(p) == [sid \in SipIds |-> IF sid = 1 THEN p ELSE NoPkg]
        latest1 == [NewObject EXCEPT !.latest_package = 1]
        there == [NoDir EXCEPT !.exists = TRUE]
        sent == [DownloadedPkg EXCEPT !.packaged = TRUE, !.uploaded = TRUE]
    IN
    { [obj |-> NewObject, pkg |-> one(NoPkg), dir |-> NoDir],
      [obj |-> NewObject, pkg |-> one(NoPkg), dir |-> there],
      [obj |-> latest1, pkg |-> one(DownloadedPkg), dir |-> there],
      [obj |-> latest1,
       pkg |-> one([DownloadedPkg EXCEPT !.packaged = TRUE]), dir |-> there],
      [obj |-> latest1, pkg |-> one(sent), dir |-> there],
      [obj |-> [latest1 EXCEPT !.preserved = TRUE],
       pkg |-> one([sent EXCEPT !.preserved = TRUE]), dir |-> NoDir],
      [obj |-> [NewObject EXCEPT !.latest_package = 2, !.preserved = TRUE],
       pkg |-> [sid \in SipIds |->
                  IF sid = 1 THEN [sent EXCEPT !.preserved = TRUE]
                  ELSE IF sid = 2 THEN DownloadedPkg ELSE NoPkg],
       dir |-> there],
      [obj |-> latest1, pkg |-> one(DownloadedPkg), dir |-> NoDir],
      [obj |-> [latest1 EXCEPT !.frozen = TRUE, !.freeze_reason = "error",
                               !.freeze_source = "automatic"],
       pkg |-> one([DownloadedPkg EXCEPT !.cancelled = TRUE]),
       dir |-> there] }

InitReset ==
    /\ row = [o |-> CHOOSE x \in ObjectColumns : TRUE, p |-> NoPackageColumns,
              P |-> 0, U |-> 0]
    /\ verdict = Unevaluated
    /\ plan = NoPlan
    /\ delay = [P |-> MaxDelay, U |-> MaxDelay]
    /\ \E seed \in [1..NObjPlan -> ResetSeeds] :
          /\ obj = [o \in 1..NObjPlan |-> seed[o].obj]
          /\ pkg = [o \in 1..NObjPlan |-> seed[o].pkg]
          /\ dir = [o \in 1..NObjPlan |-> seed[o].dir]
    /\ jobs = [o \in 1..NObjPlan |-> NoJobs]
    /\ clock = 1
    /\ run = [o \in 1..NObjPlan |-> [q \in QueueType |-> Idle]]
    /\ lock = [o \in 1..NObjPlan |-> "free"]
    /\ wflock = "free"
    /\ SyncIdle
    /\ ops = [op \in Ops |-> OpIdle]
    /\ remote = [o \in 1..NObjPlan |-> [sid \in SipIds |-> "none"]]
    /\ committed = [o \in 1..NObjPlan |-> [sid \in SipIds |-> {}]]

NextReset ==
    \/ ResetBegin
    \/ ResetEnd

SpecReset == InitReset /\ [][NextReset]_vars


\* ------------------------------- specification: one reenqueue_object call
\* how reenqueue_object(object_id) ends: ".one()" raises NoResultFound when
\* the join with the latest package yields no row, the two checks raise
\* ValueError
reenqueue_result(object_id) ==
    IF object_id \notin DOMAIN obj THEN "NoResultFound"
    ELSE IF obj[object_id].latest_package = NoLatest THEN "NoResultFound"
    ELSE IF ~pkg[object_id][obj[object_id].latest_package].rejected
    THEN "ValueError"
    ELSE IF object_id \in get_enqueued_object_ids(jobs) THEN "ValueError"
    ELSE "ok"

\* one call reenqueue_object(object_id), run to its end; an exception rolls
\* the session back before anything was written to Redis
ReenqueueObjectCall ==
    /\ plan.call = "none"
    /\ \E object_id \in DOMAIN obj \cup {AbsentId} :
          LET result == reenqueue_result(object_id) IN
          /\ obj' = IF result = "ok"
                    THEN [obj EXCEPT ![object_id].latest_package = NoLatest]
                    ELSE obj
          /\ jobs' = IF result = "ok"
                     THEN enqueue_object(
                              delete_jobs_for_object_id(jobs, object_id),
                              object_id)
                     ELSE jobs
          /\ plan' = [done |-> TRUE, call |-> "reenqueue",
                      object_id |-> object_id, result |-> result,
                      obj_before |-> obj, pkg_before |-> pkg,
                      jobs_before |-> jobs]
    /\ UNCHANGED <<pendingVars, pkg, delay, clock, run, lock, wflock, ops,
                   dir, remote, committed, syncVars>>

SpecReenqueue == InitFreeze /\ [][ReenqueueObjectCall]_vars


\* ------------------------- specification: lock holders that are killed
\* the process inside lock_queues() is killed: "finally" does not run and
\* the key workflow-lock stays
OpKilled(op) ==
    /\ ops[op].pc = "cs"
    /\ ops' = [ops EXCEPT ![op] = OpIdle]
    /\ UNCHANGED <<idleVars, dbVars, jobs, clock, run, lock, wflock, dir,
                   remote, committed>>

\* expire=900: Redis drops the key workflow-lock of a holder that is gone
KeyExpire ==
    /\ wflock \in Ops
    /\ ops[wflock].pc # "cs"
    /\ wflock' = "free"
    /\ UNCHANGED <<idleVars, dbVars, jobs, clock, run, lock, ops, dir, remote,
                   committed>>

\* the worker inside "with lock" is killed: lock-object-<id>, created with
\* redis_lock.Lock(redis, name) and no expire, stays; RQ moves the
\* abandoned job to the FailedJobRegistry
WorkerKilled(o, q) ==
    /\ run[o][q].pc = "body"
    /\ lock[o] = q
    /\ run' = [run EXCEPT ![o][q] = Idle]
    /\ jobs' = job_failed(jobs, o, q)
    /\ UNCHANGED <<idleVars, dbVars, clock, lock, wflock, ops, dir, remote,
                   committed>>

\* what a live holder, a waiting worker and Redis do on their own
CrashProgress ==
    \/ \E o \in Objs, q \in QueueType : StartJob(o, q)
    \/ \E o \in Objs : DownloadBegin(o)
    \/ \E o \in Objs : DownloadOk(o)
    \/ \E o \in Objs : CreateSipBegin(o)
    \/ \E o \in Objs : CreateSipOk(o)
    \/ PlannerEnd
    \/ LockExpire
    \/ KeyExpire

NextCrash ==
    \/ CrashProgress
    \/ PlannerBegin
    \/ \E o \in Objs : DownloadOSError(o)
    \/ \E o \in Objs : CreateSipOSError(o)
    \/ OpKilled("planner")
    \/ \E o \in Objs, q \in QueueType : WorkerKilled(o, q)
    \/ Tick

SpecCrash == Init /\ [][NextCrash]_vars /\ WF_vars(CrashProgress)


\* ------------- specification: the pipeline without errors, fairly run
\* the upload script succeeds
SubmitSipUploaded(o) ==
    SubmitSipUpload(o) /\ run'[o]["submit_sip"].pc = "uploaded"

\* DPRES accepts the SIP
DpresAccepts(o, sid) ==
    DpresReport(o, sid) /\ remote'[o][sid] = "accepted"

\* the steps of the workers, of the planner inside its guarded section, of
\* DPRES and of sync_processed_sips
ProgressSteps ==
    { "start", "download_begin", "download_ok", "create_begin", "create_ok",
      "submit_begin", "submit_upload", "submit_end", "confirm",
      "planner_end", "dpres", "update_sip" }

ProgressStep(step) ==
    \/ step = "start" /\ \E o \in Objs, q \in QueueType : StartJob(o, q)
    \/ step = "download_begin" /\ \E o \in Objs : DownloadBegin(o)
    \/ step = "download_ok" /\ \E o \in Objs : DownloadOk(o)
    \/ step = "create_begin" /\ \E o \in Objs : CreateSipBegin(o)
    \/ step = "create_ok" /\ \E o \in Objs : CreateSipOk(o)
    \/ step = "submit_begin" /\ \E o \in Objs : SubmitSipBegin(o)
    \/ step = "submit_upload" /\ \E o \in Objs : SubmitSipUploaded(o)
    \/ step = "submit_end" /\ \E o \in Objs : SubmitSipEnd(o)
    \/ step = "confirm" /\ \E o \in Objs : ConfirmSipEnd(o)
    \/ step = "planner_end" /\ PlannerEnd
    \/ step = "dpres" /\ \E o \in Objs, sid \in SipIds : DpresAccepts(o, sid)
    \/ step = "update_sip" /\ \E o \in Objs, sid \in SipIds : UpdateSip(o, sid)

NextProgress ==
    \/ \E step \in ProgressSteps : ProgressStep(step)
    \/ PlannerBegin
    \/ Tick

SpecProgress ==
    /\ Init
    /\ [][NextProgress]_vars
    /\ \A step \in ProgressSteps : WF_vars(ProgressStep(step))


\* --------------------------------- specification: one combine_results call
\* scripts/sync_processed_sips.py: the SIPResult lists of the accepted and
\* the rejected directory are combined into one list

\* longest list get_processed_sips returns
MaxResults == 2

SipFilenames == {"sip1", "sip2"}

\* SIPResult(sip_filename, report_time, status) found in one directory
SIPResults(status) ==
    [sip_filename : SipFilenames, report_time : 1..MaxClock,
     status : {status}]

\* the lists of at most MaxResults results of one directory
ResultLists(status) ==
    UNION {[1..n -> SIPResults(status)] : n \in 0..MaxResults}

\* a comparison that lets the later result win
later_result(sip_result, kept) == TRUE

\* "newer_result": the result read now has a greater report_time
newer_result(sip_result, kept) == sip_result.report_time > kept.report_time

\* the two loops of combine_results over the OrderedDict "results", kept
\* here as the list of its values in insertion order
RECURSIVE combine_loop(_, _)
combine_loop(results, todo) ==
    IF todo = <<>> THEN results
    ELSE LET sip_result == Head(todo)
             at == {i \in DOMAIN results :
                      results[i].sip_filename = sip_result.sip_filename}
         IN  IF at = {}
             THEN combine_loop(Append(results, sip_result), Tail(todo))
             ELSE LET i == CHOOSE x \in at : TRUE IN
                  IF newer_result(sip_result, results[i])
                  THEN combine_loop([results EXCEPT ![i] = sip_result],
                                    Tail(todo))
                  ELSE combine_loop(results, Tail(todo))

\* combine_results(accepted_sips, rejected_sips)
combine_results(accepted_sips, rejected_sips) ==
    combine_loop(<<>>, accepted_sips \o rejected_sips)

InitCombine ==
    /\ row = [o |-> CHOOSE x \in ObjectColumns : TRUE, p |-> NoPackageColumns,
              P |-> 0, U |-> 0]
    /\ verdict = Unevaluated
    /\ \E accepted_sips \in ResultLists("accepted"),
          rejected_sips \in ResultLists("rejected") :
          plan = [done |-> FALSE, call |-> "none",
                  accepted_sips |-> accepted_sips,
                  rejected_sips |-> rejected_sips, result |-> <<>>]
    /\ delay = [P |-> MaxDelay, U |-> MaxDelay]
    /\ obj = <<>> /\ pkg = <<>> /\ jobs = <<>>
    /\ clock = 1
    /\ run = <<>> /\ lock = <<>> /\ dir = <<>> /\ remote = <<>>
    /\ committed = <<>>
    /\ wflock = "free"
    /\ SyncIdle
    /\ ops = [op \in Ops |-> OpIdle]

CombineResultsCall ==
    /\ plan.call = "none"
    /\ plan' = [plan EXCEPT
                  !.done = TRUE, !.call = "combine",
                  !.result = combine_results(plan.accepted_sips,
                                             plan.rejected_sips)]
    /\ UNCHANGED <<pendingVars, dbVars, jobs, delay, workerVars>>

SpecCombine == InitCombine /\ [][CombineResultsCall]_vars


\* ------------------------- specification: one run of sync_processed_sips
\* A SIP is named by its object and sip_id; the remote tree holds at most
\* one report per SIP, in the accepted or in the rejected directory.

\* a filter that skips every uploaded package
get_uploaded_sip_filenames(pkgs) ==
    {sip \in (DOMAIN pkgs) \X SipIds :
        pkgs[sip[1]][sip[2]].exists /\ pkgs[sip[1]][sip[2]].uploaded}

\* get_confirmed_sip_filenames, before the created_date cutoff: the
\* packages marked preserved or rejected
get_confirmed_sip_filenames(pkgs) ==
    {sip \in (DOMAIN pkgs) \X SipIds :
        /\ pkgs[sip[1]][sip[2]].exists
        /\ pkgs[sip[1]][sip[2]].preserved \/ pkgs[sip[1]][sip[2]].rejected}

\* get_processed_sips(sftp, status, days, confirmed_sip_filenames): the
\* reports of one directory in listing order, the skipped names left out
get_processed_sips(tree, listing, status, confirmed_sip_filenames) ==
    LET found(sip) == /\ tree[sip[1]][sip[2]] = status
                      /\ sip \notin confirmed_sip_filenames
        names == SelectSeq(listing, found)
    IN  [i \in DOMAIN names |->
            [sip_filename |-> names[i], report_time |-> 1,
             status |-> status]]

\* update_sip on the state st of tables, directories and queues: nothing
\* for a package that is missing or marked; FileNotFoundError, with the
\* session rolled back, when the working directory is missing
update_sip(st, sip) ==
    LET o == sip.sip_filename[1]
        sid == sip.sip_filename[2]
    IN  IF st.raised THEN st
        ELSE IF \/ ~st.pkg[o][sid].exists
                \/ st.pkg[o][sid].preserved
                \/ st.pkg[o][sid].rejected
        THEN st
        ELSE IF ~st.dir[o].exists THEN [st EXCEPT !.raised = TRUE]
        ELSE [st EXCEPT
                !.pkg[o][sid].preserved = (sip.status = "accepted"),
                !.pkg[o][sid].rejected = (sip.status = "rejected"),
                !.dir[o].status[sid] = sip.status,
                !.jobs = enqueue_job(st.jobs, "confirm_sip", o, sid)]

\* update_sips: one update_sip after the other; an exception ends the run
RECURSIVE update_sips(_, _)
update_sips(st, sip_results) ==
    IF sip_results = <<>> THEN st
    ELSE update_sips(update_sip(st, Head(sip_results)), Tail(sip_results))

\* sync_processed_sips with the given set of names to skip
sync_processed_sips(st, tree, listing, confirmed_sip_filenames) ==
    update_sips(st,
        combine_results(
            get_processed_sips(tree, listing, "accepted",
                               confirmed_sip_filenames),
            get_processed_sips(tree, listing, "rejected",
                               confirmed_sip_filenames)))

\* a SIP before the run: never made; uploaded and accepted, or rejected, by
\* DPRES but not marked; accepted and marked preserved
SkipSeeds ==
    LET sent == [DownloadedPkg EXCEPT !.packaged = TRUE, !.uploaded = TRUE]
    IN  { [pkg |-> NoPkg, remote |-> "none"],
          [pkg |-> sent, remote |-> "accepted"],
          [pkg |-> sent, remote |-> "rejected"],
          [pkg |-> [sent EXCEPT !.preserved = TRUE], remote |-> "accepted"] }

InitSkip ==
    /\ row = [o |-> CHOOSE x \in ObjectColumns : TRUE, p |-> NoPackageColumns,
              P |-> 0, U |-> 0]
    /\ verdict = Unevaluated
    /\ plan = NoCall
    /\ delay = [P |-> MaxDelay, U |-> MaxDelay]
    /\ obj = [o \in 1..NObjPlan |-> [NewObject EXCEPT !.latest_package = 1]]
    /\ \E seed \in [(1..NObjPlan) \X SipIds -> SkipSeeds] :
          /\ pkg = [o \in 1..NObjPlan |-> [sid \in SipIds |->
                      seed[<<o, sid>>].pkg]]
          /\ remote = [o \in 1..NObjPlan |-> [sid \in SipIds |->
                         seed[<<o, sid>>].remote]]
    /\ dir \in [1..NObjPlan -> {NoDir, [NoDir EXCEPT !.exists = TRUE]}]
    /\ jobs = [o \in 1..NObjPlan |-> NoJobs]
    /\ clock = 1
    /\ run = [o \in 1..NObjPlan |-> [q \in QueueType |-> Idle]]
    /\ lock = [o \in 1..NObjPlan |-> "free"]
    /\ wflock = "free"
    /\ SyncIdle
    /\ ops = [op \in Ops |-> OpIdle]
    /\ committed = [o \in 1..NObjPlan |-> [sid \in SipIds |-> {}]]

\* one run of sync_processed_sips(days): the names to skip are the marked
\* packages younger than the cutoff, the directories are listed in some
\* order
SyncProcessedSipsCall ==
    /\ plan.call = "none"
    /\ \E young \in SUBSET ((DOMAIN pkg) \X SipIds) :
       \E listing \in Orders({sip \in (DOMAIN pkg) \X SipIds :
                                 remote[sip[1]][sip[2]]
                                    \in {"accepted", "rejected"}}) :
          LET confirmed_sip_filenames ==
                  get_confirmed_sip_filenames(pkg) \cap young
              st == sync_processed_sips(
                        [pkg |-> pkg, dir |-> dir, jobs |-> jobs,
                         raised |-> FALSE],
                        remote, listing, confirmed_sip_filenames)
          IN  /\ young \subseteq get_confirmed_sip_filenames(pkg)
              /\ pkg' = st.pkg
              /\ dir' = st.dir
              /\ jobs' = st.jobs
              /\ plan' = [done |-> TRUE, call |-> "sync_processed_sips",
                          listing |-> listing,
                          confirmed_sip_filenames |-> confirmed_sip_filenames,
                          raised |-> st.raised,
                          pkg_before |-> pkg, dir_before |-> dir,
                          jobs_before |-> jobs]
    /\ UNCHANGED <<pendingVars, obj, delay, clock, run, lock, wflock, ops,
                   remote, committed, syncVars>>

SpecSkip == InitSkip /\ [][SyncProcessedSipsCall]_vars


\* --------------------------- specification: waiting for the two lock scopes
\* lock.acquire(blocking=True) is split in two: the caller starts to wait,
\* then the lock is granted.  Handlers wait for lock-object-<id> in
\* pc = "wait"; the scripts wait for workflow-lock in pc = "wait".

\* a script reaches lock_queues() and blocks in acquire
LockQueuesWait(op) ==
    /\ ops[op].pc \in {"idle", "raised"}
    /\ ops' = [ops EXCEPT ![op] = [pc |-> "wait", ids |-> {}]]
    /\ UNCHANGED <<idleVars, dbVars, jobs, clock, run, lock, wflock, dir,
                   remote, committed>>

LockSteps ==
    { "start", "download_begin", "download_end", "create_begin",
      "create_end", "submit_begin", "submit_upload", "submit_end", "confirm",
      "planner_begin", "planner_end", "freeze_begin", "freeze_end" }

\* the steps a started job or a script takes without outside help
LockStep(step) ==
    \/ step = "start" /\ \E o \in Objs, q \in QueueType : StartJob(o, q)
    \/ step = "download_begin" /\ \E o \in Objs : DownloadBegin(o)
    \/ step = "download_end" /\ \E o \in Objs :
          DownloadOk(o) \/ DownloadOSError(o) \/ DownloadPreservationError(o)
    \/ step = "create_begin" /\ \E o \in Objs : CreateSipBegin(o)
    \/ step = "create_end" /\ \E o \in Objs :
          CreateSipOk(o) \/ CreateSipOSError(o) \/ CreateSipPreservationError(o)
    \/ step = "submit_begin" /\ \E o \in Objs : SubmitSipBegin(o)
    \/ step = "submit_upload" /\ \E o \in Objs : SubmitSipUpload(o)
    \/ step = "submit_end" /\ \E o \in Objs : SubmitSipEnd(o)
    \/ step = "confirm" /\ \E o \in Objs : ConfirmSipEnd(o)
    \/ step = "planner_begin" /\ ops["planner"].pc = "wait" /\ PlannerBegin
    \/ step = "planner_end" /\ PlannerEnd
    \/ step = "freeze_begin" /\ ops["freeze"].pc = "wait"
          /\ \E ids \in SUBSET Objs \ {{}} :
                FreezeBegin(ids) \/ FreezeRefused(ids)
    \/ step = "freeze_end" /\ \E delete_jobs \in BOOLEAN : FreezeEnd(delete_jobs)

\* a step that takes a lock
LockGrants == {"download_begin", "create_begin", "submit_begin",
               "planner_begin", "freeze_begin"}

NextLocks ==
    \/ \E step \in LockSteps : LockStep(step)
    \/ \E op \in {"planner", "freeze"} : LockQueuesWait(op)
    \/ \E o \in Objs : Reenqueue(o)
    \/ Tick
    \/ \E o \in Objs, sid \in SipIds : DpresReport(o, sid)
    \/ \E o \in Objs, sid \in SipIds : UpdateSip(o, sid)

\* every holder goes on to its release; a waiter that could take the lock
\* again and again does take it
SpecLocks ==
    /\ Init
    /\ [][NextLocks]_vars
    /\ \A step \in LockSteps \ LockGrants : WF_vars(LockStep(step))
    /\ \A step \in LockGrants : SF_vars(LockStep(step))


\* ----------------------------------------------------------------- claims
\* C3: for the same now, exactly one of filter_preservation_pending and
\* exclude_preservation_pending selects any given object: the two selections
\* are disjoint and together cover every object.
C3_PartitionDisjointComplete ==
    verdict.done => (verdict.filtered # verdict.excluded)

\* C4: the in-memory property preservation_pending and the query
\* filter_preservation_pending agree on every object, for the same now and
\* delays, whatever is NULL among the dates and hashes.
C4_PropertyAgreesWithFilter ==
    verdict.done => (verdict.pending = verdict.filtered)

\* object ids that have a job in any registry of any stage queue
HasJob(js, o) == \E q \in QueueType : js[o][q].state # "none"

ScheduledJobs ==
    Cardinality({o \in DOMAIN jobs : jobs[o] # plan.jobs_before[o]})

\* eligible objects without a job when the call began
FreeEligible ==
    {o \in PendingQuery(obj, pkg, delay) : ~HasJob(plan.jobs_before, o)}

Min(a, b) == IF a <= b THEN a ELSE b

\* C6: enqueue_objects(object_count), for every object_count >= 0, schedules
\* exactly min(object_count, k) download jobs, k being the number of eligible
\* objects not already enqueued, and returns the number of jobs scheduled.
C6_PlannerSchedulesMinCountK ==
    (plan.done /\ plan.object_ids = {}) =>
        /\ ScheduledJobs = Min(plan.object_count, Cardinality(FreeEligible))
        /\ ScheduledJobs <= plan.object_count
        /\ plan.new_job_count = ScheduledJobs

\* number of terminal flags set on a package row
TerminalFlags(p) ==
    (IF p.preserved THEN 1 ELSE 0) + (IF p.rejected THEN 1 ELSE 0)
    + (IF p.cancelled THEN 1 ELSE 0)

\* C1: in every reachable state every package has at most one of the flags
\* preserved, rejected and cancelled set, whatever the interleaving of the
\* stage handlers, freeze_objects, freeze_running_object, reenqueue_object
\* and sync_processed_sips.
C1_AtMostOneTerminalFlag ==
    \A o \in DOMAIN pkg : \A sid \in DOMAIN pkg[o] :
        pkg[o][sid].exists => TerminalFlags(pkg[o][sid]) <= 1

\* stages whose handler is executing its body for the object
InBody(o) == {q \in QueueType : run[o][q].pc \in {"body", "uploaded"}}

\* C2: at no time do two stage handlers execute their bodies for the same
\* object, and each of the four handlers holds lock-object-<id> for the whole
\* of its body.
C2_HandlersHoldObjectLock ==
    \A o \in DOMAIN run :
        /\ Cardinality(InBody(o)) <= 1
        /\ \A q \in InBody(o) : lock[o] = q

\* operations inside their lock_queues() section
InSection == {op \in Ops : ops[op].pc = "cs"}

\* C7: at no time are two of the enqueue planner, freeze_objects,
\* unfreeze_objects and reset_workflow inside their workflow-lock-guarded
\* sections, however long the holder stays in its section.
C7_WorkflowLockExcludes == Cardinality(InSection) <= 1

\* C8: when the downloader raises PreservationError in download_object, for
\* an object with or without a latest package, the handler returns without
\* raising, the object ends frozen with source AUTOMATIC and the error as
\* reason, no package is created and no create_sip job is enqueued.
C8_DownloadPreservationErrorFreezes ==
    [][\A o \in Objs :
          DownloadPreservationError(o) =>
              /\ jobs'[o]["download_object"].state # "failed"
              /\ obj'[o].frozen
              /\ obj'[o].freeze_source = "automatic"
              /\ obj'[o].freeze_reason = "error"
              /\ \A sid \in SipIds : pkg'[o][sid].exists = pkg[o][sid].exists
              /\ jobs'[o]["create_sip"] = jobs[o]["create_sip"]]_vars

\* the stage that must have committed for the attempt before a stage runs
Previous(q) ==
    CASE q = "create_sip" -> "download_object"
      [] q = "submit_sip" -> "create_sip"
      [] q = "confirm_sip" -> "submit_sip"

\* an attempt that has begun and whose package has no terminal flag yet
InProgress(o, sid) ==
    /\ committed[o][sid] # {}
    /\ pkg[o][sid].exists
    /\ TerminalFlags(pkg[o][sid]) = 0

\* C9: per object the stages run in the order download, create, submit,
\* confirm: a stage executes for an attempt only after the previous stage
\* of that attempt has committed, and no stage of a newer attempt executes
\* while an earlier attempt of the object is still in progress.
C9_StagesTotallyOrdered ==
    \A o \in DOMAIN run : \A q \in InBody(o) :
        /\ q # "download_object" =>
               Previous(q) \in committed[o][run[o][q].sip_id]
        /\ \A sid \in SipIds :
               sid < run[o][q].sip_id => ~InProgress(o, sid)

\* C10: in every reachable state every package satisfies: preserved implies
\* uploaded, packaged and downloaded; packaged implies downloaded; under any
\* interleaving of submit_sip with sync_processed_sips.
C10_FlagsMonotoneAlongPipeline ==
    \A o \in DOMAIN pkg : \A sid \in DOMAIN pkg[o] :
        LET p == pkg[o][sid] IN
        p.exists =>
            /\ p.preserved => (p.uploaded /\ p.packaged /\ p.downloaded)
            /\ p.packaged => p.downloaded

\* C11: in every reachable state an object with preserved = TRUE has at
\* least one package of its own with preserved = TRUE, whatever the order
\* of reset_workflow, unfreeze_objects, reenqueue_object and confirm_sip.
C11_PreservedObjectHasPreservedPackage ==
    \A o \in DOMAIN obj :
        obj[o].preserved =>
            \E sid \in DOMAIN pkg[o] :
                pkg[o][sid].exists /\ pkg[o][sid].preserved

filename_exists(o) ==
    /\ run[o]["download_object"].pc = "body"
    /\ pkg[o][run[o]["download_object"].sip_id].exists

\* C13: sip_filename stays unique: a download_object that computes a
\* sip_filename which already exists (a second download of the object within
\* the same second) fails with an error, creates or modifies no package,
\* leaves the object's latest_package alone and enqueues no create_sip job.
C13_IdenticalFilenameDisallowed ==
    [][\A o \in Objs :
          (filename_exists(o) /\ DownloadOk(o)) =>
              /\ jobs[o]["download_object"].state = "started" =>
                     jobs'[o]["download_object"].state = "failed"
              /\ pkg' = pkg
              /\ obj' = obj
              /\ jobs'[o]["create_sip"] = jobs[o]["create_sip"]
              /\ committed' = committed]_vars

\* C13 witness: a started download_object has drawn the sip_id of a package
\* the object already has
C13_Witness ==
    \E o \in Objs :
        /\ filename_exists(o)
        /\ jobs[o]["download_object"].state = "started"

\* an object that is frozen or has one of its hashes missing
Incomplete(o) ==
    o.frozen \/ o.metadata_hash = NullHash
             \/ o.attachment_metadata_hash = NullHash

\* C14: an object that is frozen, or whose metadata_hash or
\* attachment_metadata_hash is NULL, is never pending, neither by the
\* property nor by filter_preservation_pending (the query enqueue_objects
\* runs), whatever its dates and its latest package.
C14_IncompleteNeverPending ==
    (verdict.done /\ Incomplete(row.o)) =>
        (~verdict.pending /\ ~verdict.filtered)

\* C14 witness: an unfrozen object with a cancelled latest package and a
\* NULL hash has been evaluated
C14_Witness ==
    /\ verdict.done
    /\ ~row.o.frozen
    /\ row.o.attachment_metadata_hash = NullHash
    /\ row.p.has_package /\ row.p.cancelled = "T"

\* the latest package exists and is cancelled
LatestCancelled(p) == p.has_package /\ p.cancelled = "T"

\* C15 as stated: with a cancelled latest package, preservation_pending is
\* true exactly when the object is not frozen, whatever the dates and delays.
C15_CancelledPendingIffNotFrozen ==
    (verdict.done /\ LatestCancelled(row.p)) =>
        (verdict.pending <=> ~row.o.frozen)

\* C15 amended: with a cancelled latest package and both hashes of the
\* object present, preservation_pending is true exactly when the object is
\* not frozen, whatever the dates and delays.
C15_CancelledPendingIffNotFrozenComplete ==
    (/\ verdict.done
     /\ LatestCancelled(row.p)
     /\ row.o.metadata_hash # NullHash
     /\ row.o.attachment_metadata_hash # NullHash) =>
        (verdict.pending <=> ~row.o.frozen)

\* C15 witness: pending through the cancelled package alone: dates equal,
\* hashes equal, no delay elapsed
C15_Witness ==
    /\ verdict.done /\ verdict.pending
    /\ LatestCancelled(row.p)
    /\ row.p.object_modified_date = row.o.modified_date
    /\ row.p.object_modified_date = Now
    /\ row.p.p_metadata_hash = row.o.metadata_hash
    /\ row.p.p_attachment_metadata_hash = row.o.attachment_metadata_hash

\* only metadata_hash differs from the package's snapshot, the package is
\* not cancelled and U has elapsed since its object_modified_date
OnlyMetadataHashChanged(r) ==
    /\ ~r.o.frozen
    /\ r.p.has_package /\ r.p.cancelled = "F"
    /\ r.o.metadata_hash # NullHash /\ r.o.attachment_metadata_hash # NullHash
    /\ r.p.p_metadata_hash # NullHash
    /\ r.o.metadata_hash # r.p.p_metadata_hash
    /\ r.o.attachment_metadata_hash = r.p.p_attachment_metadata_hash
    /\ r.p.object_modified_date # NullDate
    /\ r.p.object_modified_date < Now - r.U

\* C16 as stated: for an unfrozen object whose latest package is not
\* cancelled, a metadata_hash that alone differs from the package's makes the
\* object pending once U has elapsed since the package's
\* object_modified_date.
C16_MetadataHashChangeMakesPending ==
    (verdict.done /\ OnlyMetadataHashChanged(row)) => verdict.pending

\* C16 amended: the same, provided the object's modified_date differs from
\* the package's object_modified_date.
C16_MetadataHashAndDateChangeMakesPending ==
    (/\ verdict.done
     /\ OnlyMetadataHashChanged(row)
     /\ row.o.modified_date # row.p.object_modified_date) => verdict.pending

\* C16 witness: such an object, modified after the package was made
C16_Witness ==
    /\ verdict.done /\ verdict.pending
    /\ OnlyMetadataHashChanged(row)
    /\ row.o.modified_date # NullDate
    /\ row.o.modified_date > row.p.object_modified_date

\* C17: with a latest package that is not cancelled and whose
\* object_modified_date equals the object's modified_date (NULL equal only
\* to NULL), the object is not pending, by the property and by the query,
\* whatever the hashes and however old the date.
C17_SameModifiedDateNotPending ==
    (/\ verdict.done
     /\ row.p.has_package /\ row.p.cancelled = "F"
     /\ row.p.object_modified_date = row.o.modified_date) =>
        (~verdict.pending /\ ~verdict.filtered)

\* C17 witness: unfrozen, hashes present and different from the package's,
\* the common date older than the update delay
C17_Witness ==
    /\ verdict.done
    /\ ~Incomplete(row.o)
    /\ row.p.has_package /\ row.p.cancelled = "F"
    /\ row.p.object_modified_date = row.o.modified_date
    /\ row.p.object_modified_date # NullDate
    /\ row.p.object_modified_date < Now - row.U
    /\ row.p.p_metadata_hash # NullHash
    /\ row.p.p_metadata_hash # row.o.metadata_hash

C19_FreezeObjectsEffect ==
    plan.call = "freeze" =>
        LET ids == plan.object_ids
            ob == plan.obj_before
            pb == plan.pkg_before
            newly == {c \in (DOMAIN obj) \X SipIds :
                        /\ pkg[c[1]][c[2]].cancelled
                        /\ ~pb[c[1]][c[2]].cancelled}
        IN  /\ \A o \in ids \cap DOMAIN obj :
                  /\ obj[o].frozen
                  /\ obj[o].freeze_reason = plan.reason
                  /\ obj[o].freeze_source = plan.source
            /\ \A o \in DOMAIN obj : \A sid \in SipIds :
                  /\ <<o, sid>> \in newly <=>
                        /\ o \in ids
                        /\ ob[o].latest_package = sid
                        /\ pb[o][sid].exists
                        /\ ~pb[o][sid].preserved
                        /\ ~pb[o][sid].rejected
                        /\ ~pb[o][sid].cancelled
                  /\ pb[o][sid].cancelled => pkg[o][sid].cancelled
            /\ plan.delete_jobs =>
                  \A o \in ids \cap DOMAIN jobs : \A q \in QueueType :
                      jobs[o][q] = NoJob
            /\ \A o \in DOMAIN obj \ ids :
                  obj[o] = ob[o] /\ pkg[o] = pb[o]
            /\ plan.result = <<Cardinality(ids \cap DOMAIN obj),
                               Cardinality(newly)>>

\* a call that lists an existing and an absent id, deletes a waiting job and
\* cancels one package, while the unlisted object keeps a package that is
\* not cancelled
C19_Witness ==
    /\ plan.call = "freeze"
    /\ plan.delete_jobs
    /\ AbsentId \in plan.object_ids
    /\ plan.result = <<1, 1>>
    /\ \E o \in plan.object_ids \cap DOMAIN obj :
          /\ plan.jobs_before[o] # NoJobs
          /\ plan.obj_before[o].freeze_reason # plan.reason
    /\ \E o \in DOMAIN obj \ plan.object_ids :
          /\ obj[o].latest_package = 1
          /\ pkg[o][1].exists
          /\ ~pkg[o][1].cancelled /\ ~pkg[o][1].preserved
          /\ ~pkg[o][1].rejected

\* the objects of the freeze that the following unfreeze selected
Unfrozen ==
    {o \in plan.frozen_ids \cap DOMAIN obj :
        /\ plan.object_ids # {} => o \in plan.object_ids
        /\ plan.reason # NoReason => plan.reason = plan.frozen_reason}

\* the latest package an object had before the freeze was preserved
PriorLatestPreserved(o) ==
    /\ plan.obj_before[o].latest_package # NoLatest
    /\ plan.pkg_before[o][plan.obj_before[o].latest_package].preserved

\* C20: freeze_objects followed directly by unfreeze_objects leaves the
\* object not frozen, with freeze_reason and freeze_source cleared, and with
\* latest_package null if and only if the latest package it had before was
\* not preserved; a preserved latest package stays linked.
C20_FreezeUnfreezeRoundTrip ==
    plan.call = "unfreeze" =>
        \A o \in Unfrozen :
            /\ ~obj[o].frozen
            /\ obj[o].freeze_reason = "none"
            /\ obj[o].freeze_source = "none"
            /\ obj[o].latest_package = NoLatest <=> ~PriorLatestPreserved(o)
            /\ PriorLatestPreserved(o) =>
                  obj[o].latest_package = plan.obj_before[o].latest_package

\* one round trip over an object whose latest package was preserved and one
\* whose latest package was not
C20_Witness ==
    /\ plan.call = "unfreeze"
    /\ \E o \in Unfrozen :
          PriorLatestPreserved(o) /\ obj[o].latest_package = 1
    /\ \E o \in Unfrozen :
          /\ plan.obj_before[o].latest_package = 1
          /\ ~PriorLatestPreserved(o)
          /\ obj[o].latest_package = NoLatest

C22_ConfirmSipFollowsStatus ==
    [][\A o \in DOMAIN obj :
          ConfirmSipEnd(o) =>
              LET sid == run[o]["confirm_sip"].sip_id
                  status == dir[o].status[sid]
              IN  IF status \in {"accepted", "rejected"}
                  THEN /\ pkg'[o][sid].preserved <=> status = "accepted"
                       /\ pkg'[o][sid].rejected <=> status = "rejected"
                       /\ obj'[o].preserved <=>
                             (status = "accepted" \/ obj[o].preserved)
                       /\ jobs'[o]["confirm_sip"].state # "failed"
                  ELSE /\ jobs'[o]["confirm_sip"].state = "failed"
                       /\ UNCHANGED <<obj, pkg, dir>>]_vars

\* one job confirmed a rejection without touching its object, another
\* confirmed an acceptance, or failed on a status file with other text
C22_Witness ==
    /\ \E o \in DOMAIN obj :
          /\ "confirm_sip" \in committed[o][1]
          /\ pkg[o][1].rejected /\ ~pkg[o][1].preserved
          /\ ~obj[o].preserved
    /\ \E o \in DOMAIN obj :
          /\ jobs[o]["confirm_sip"].state = "failed"
          /\ dir[o].status[1] = "invalid"
          /\ ~pkg[o][1].preserved /\ ~pkg[o][1].rejected

\* C23: submit_sip on a package whose uploaded flag is true raises without
\* calling the uploader and without changing any state, so over any
\* sequence of submit_sip executions, re-runs included, the uploader is
\* never invoked for a package whose upload was recorded.
C23_UploadedPackageNotSubmittedAgain ==
    [][\A o \in DOMAIN obj :
          LET sid == run[o]["submit_sip"].sip_id IN
          /\ (SubmitSipBegin(o) /\ pkg[o][sid].exists /\ pkg[o][sid].uploaded)
                => /\ jobs'[o]["submit_sip"].state = "failed"
                   /\ run'[o]["submit_sip"] = Idle
                   /\ UNCHANGED <<obj, pkg, dir, remote, committed, lock>>
          /\ SubmitSipUpload(o)
                => ~(pkg[o][sid].exists /\ pkg[o][sid].uploaded)]_vars

\* a re-run of submit_sip was refused for a package recorded as uploaded
C23_Witness ==
    \E o \in DOMAIN obj :
        /\ jobs[o]["submit_sip"].state = "failed"
        /\ pkg[o][1].uploaded
        /\ remote[o][1] = "uploaded"
        /\ run[o]["submit_sip"] = Idle

\* update_sip has marked the package preserved or rejected
Marked(o, sid) ==
    pkg[o][sid].exists /\ (pkg[o][sid].preserved \/ pkg[o][sid].rejected)

C25_MarkedPackageConfirmedOrQueued ==
    \A o \in Objs : \A sid \in SipIds :
        Marked(o, sid) =>
            \/ "confirm_sip" \in committed[o][sid]
            \/ /\ jobs[o]["confirm_sip"].state \in {"pending", "started"}
               /\ jobs[o]["confirm_sip"].sip_id = sid

\* C26: after any number of interrupted runs of sync_objects with
\* save_progress and one run that completes, over an upstream list that does
\* not change, every upstream record is persisted as an object and the
\* SyncStatus is offset 0, start_sync_date NULL and prev_start_sync_date T0,
\* the start time of the first of those runs.
C26_ResumableSyncLosesNoRecord ==
    LET s == "sync_objects" IN
    (cycle[s].completed /\ sync_run[s].pc = "idle") =>
        /\ \A r \in Range(upstream.objects) : r.id \in DOMAIN obj
        /\ sync_status[s] =
              [offset |-> 0, start_sync_date |-> NullDate,
               prev_start_sync_date |-> cycle[s].first_start]

\* sync_objects completed at a later time than it first started, after
\* having been interrupted MaxInterrupts times
C26_Witness ==
    LET s == "sync_objects" IN
    /\ cycle[s].completed /\ sync_run[s].pc = "idle"
    /\ cycle[s].interrupts = MaxInterrupts
    /\ cycle[s].first_start = 1
    /\ clock = MaxClock
    /\ sync_status[s].prev_start_sync_date = 1
    /\ {1, 2, 3} \subseteq DOMAIN obj

\* C27: prev_start_sync_date changes only in finish_sync_progress, where it
\* takes the start_sync_date of the run that finished; until then a run,
\* however often it is interrupted and resumed, keeps start_sync_date at the
\* value set when the first of those runs began.
C27_CursorRollsOnlyOnCompletion ==
    /\ [](\A s \in Scripts :
            (cycle[s].first_start # NullDate /\ ~cycle[s].completed) =>
                sync_status[s].start_sync_date = cycle[s].first_start)
    /\ [][\A s \in Scripts :
            /\ sync_status'[s].prev_start_sync_date
                  # sync_status[s].prev_start_sync_date
                  => /\ FinishSync(s)
                     /\ sync_status'[s].prev_start_sync_date
                           = sync_status[s].start_sync_date
            /\ (~FinishSync(s) /\ sync_status[s].start_sync_date # NullDate)
                  => sync_status'[s].start_sync_date
                        = sync_status[s].start_sync_date]_vars

\* a run resumed at a later time after an interruption, with part of the
\* list done, still carrying the start date of the first run
C27_Witness ==
    \E s \in Scripts :
        /\ sync_run[s].pc = "chunk"
        /\ cycle[s].interrupts >= 1
        /\ sync_status[s].offset > 0
        /\ sync_status[s].start_sync_date = 1
        /\ sync_status[s].prev_start_sync_date = NullDate
        /\ clock = MaxClock

\* the dates MuseumPlus holds for an object: its own and its attachments'
IncomingDates(o) ==
    {r.modified_date : r \in {x \in Range(upstream.objects) : x.id = o}}
    \cup {m.modified_date :
             m \in {x \in Range(upstream.multimedia) : o \in x.object_ids}}

\* C28: over any sequence of sync_objects and sync_attachments chunks the
\* stored modified_date of an existing object never decreases (NULL being
\* the least value) and is replaced only by a strictly newer incoming
\* object or attachment date.
C28_ModifiedDateNeverRegresses ==
    [][\A o \in DOMAIN obj :
          /\ o \in DOMAIN obj'
          /\ obj'[o].modified_date >= obj[o].modified_date
          /\ obj'[o].modified_date # obj[o].modified_date =>
                /\ obj'[o].modified_date \in IncomingDates(o)
                /\ obj'[o].modified_date > obj[o].modified_date]_vars

\* object 1 was created by sync_attachments with the newest attachment
\* date, then updated by sync_objects, whose older date did not replace it
C28_Witness ==
    /\ 1 \in DOMAIN obj
    /\ obj[1].created_date = NullDate
    /\ obj[1].metadata_hash = "h1"
    /\ obj[1].modified_date = MaxDate
    /\ upstream.objects[1].modified_date < MaxDate

\* C29: once a run of sync_hashes has completed with no change to the
\* attachments, their hashes or the links since it began, a further run
\* changes no object row and queues no update: objects with an attachment
\* whose hash is NULL keep their value, and the digest does not depend on
\* the order in which the attachments were read.
C29_SyncHashesIdempotent ==
    [][sync_run["sync_hashes"].quiet >= 1 =>
          /\ obj' = obj
          /\ sync_run'["sync_hashes"].pc = "chunk" =>
                sync_run'["sync_hashes"].pending = <<>>]_vars

\* a second undisturbed run has completed: object 1 carries the digest of
\* its two different hashes, object 2 the empty string, and object 3, with
\* an attachment whose hash is NULL, the stale digest it had before
C29_Witness ==
    /\ sync_run["sync_hashes"].quiet = MaxQuietRuns
    /\ sync_run["sync_hashes"].pc = "idle"
    /\ obj[1].attachment_metadata_hash = "sha256:ab"
    /\ obj[2].attachment_metadata_hash = ""
    /\ obj[3].attachment_metadata_hash = "sha256:a"
    /\ \E l \in links : l[1] = 3 /\ attachments[l[2]].metadata_hash = NullHash

\* the objects C30 names: the latest package is not uploaded and is
\* downloaded or packaged
ResetAffected(o) ==
    /\ obj[o].latest_package # NoLatest
    /\ ~pkg[o][obj[o].latest_package].uploaded
    /\ \/ pkg[o][obj[o].latest_package].downloaded
       \/ pkg[o][obj[o].latest_package].packaged

\* C30: a reset_workflow call nulls latest_package, deletes the package row
\* and removes the working directory of exactly the objects whose latest
\* package has uploaded=false and (downloaded or packaged); every other
\* object, package and working directory is left unchanged.
C30_ResetWorkflowFrame ==
    [][(ops["reset"].pc = "cs" /\ ops'["reset"].pc = "idle") =>
          \A o \in DOMAIN obj :
             IF ResetAffected(o)
             THEN /\ obj'[o] = [obj[o] EXCEPT !.latest_package = NoLatest]
                  /\ ~pkg'[o][obj[o].latest_package].exists
                  /\ \A sid \in SipIds \ {obj[o].latest_package} :
                        pkg'[o][sid] = pkg[o][sid]
                  /\ ~dir'[o].exists
             ELSE /\ obj'[o] = obj[o]
                  /\ pkg'[o] = pkg[o]
                  /\ dir'[o] = dir[o]]_vars

\* after a reset: object 1, whose second package was only downloaded, has
\* lost it and its directory and kept its preserved first package; object
\* 2 still has its uploaded package and its directory
C30_Witness ==
    /\ DOMAIN obj = 1..NObjPlan
    /\ ops["reset"].pc = "idle"
    /\ obj[1].latest_package = NoLatest /\ obj[1].preserved
    /\ pkg[1][1].preserved /\ ~pkg[1][2].exists /\ ~dir[1].exists
    /\ obj[2].latest_package = 1
    /\ pkg[2][1].uploaded /\ ~pkg[2][1].preserved /\ dir[2].exists

\* the precondition C31 names, in the state before the call: the latest
\* package is rejected and no stage holds a pending, started or failed job
ReenqueueAllowed ==
    LET o == plan.object_id IN
    /\ o \in DOMAIN plan.obj_before
    /\ plan.obj_before[o].latest_package # NoLatest
    /\ plan.pkg_before[o][plan.obj_before[o].latest_package].rejected
    /\ \A q \in QueueType : plan.jobs_before[o][q].state = "none"

\* C31: reenqueue_object succeeds only for an object whose latest package
\* is rejected and that has no pending, started or failed job; otherwise it
\* raises ValueError and changes neither the database nor the queues.  On
\* success latest_package is null, all packages are kept, earlier jobs are
\* gone and exactly one download_object job is pending.
C31_ReenqueueObjectContract ==
    plan.call = "reenqueue" =>
        LET o == plan.object_id IN
        /\ plan.result = "ok" <=> ReenqueueAllowed
        /\ ~ReenqueueAllowed =>
              /\ plan.result = "ValueError"
              /\ obj = plan.obj_before /\ pkg = plan.pkg_before
              /\ jobs = plan.jobs_before
        /\ ReenqueueAllowed =>
              /\ obj[o] = [plan.obj_before[o] EXCEPT
                             !.latest_package = NoLatest]
              /\ pkg = plan.pkg_before
              /\ jobs[o] = [NoJobs EXCEPT !["download_object"] =
                              [state |-> "pending", sip_id |-> 0]]
              /\ \A x \in DOMAIN obj \ {o} :
                    obj[x] = plan.obj_before[x]
                    /\ jobs[x] = plan.jobs_before[x]

\* the same contract with the refusal being any exception
C31_RefusalLeavesStateAlone ==
    plan.call = "reenqueue" =>
        /\ plan.result = "ok" <=> ReenqueueAllowed
        /\ ~ReenqueueAllowed =>
              /\ obj = plan.obj_before /\ pkg = plan.pkg_before
              /\ jobs = plan.jobs_before

\* the workflow lock is freed after its holder ended or was killed
C32_WorkflowLockFreed == (wflock # "free") ~> (wflock = "free")

\* C32: every distributed lock has a bounded expiry: when the holder of
\* workflow-lock or of lock-object-<id> is killed without releasing it, the
\* lock eventually becomes acquirable again.
C32_LocksExpire ==
    /\ (wflock # "free") ~> (wflock = "free")
    /\ \A o \in Objs : (lock[o] # "free") ~> (lock[o] = "free")

\* a stage handler of object o is executing while holding lock-object-<o>
HandlerHoldsLock(o) ==
    /\ lock[o] \in QueueType
    /\ run[o][lock[o]].pc = "body"

\* C33: the working directory of an object changes only in a step of a
\* stage handler that holds lock-object-<id> for it, or of freeze_objects
\* or reset_workflow while they hold workflow-lock.
C33_DirectoryMutatedUnderLock ==
    [][\A o \in DOMAIN dir :
          dir'[o] # dir[o] =>
             \/ HandlerHoldsLock(o)
             \/ wflock \in {"freeze", "reset"} /\ ops[wflock].pc = "cs"]_vars

\* the same, allowing the two writers that take no lock: update_sip of
\* sync_processed_sips and the confirm_sip handler
C33_UnlockedWritersAreUpdateAndConfirm ==
    [][\A o \in DOMAIN dir :
          dir'[o] # dir[o] =>
             \/ HandlerHoldsLock(o)
             \/ wflock \in {"freeze", "reset"} /\ ops[wflock].pc = "cs"
             \/ \E sid \in SipIds : UpdateSip(o, sid) \/ UpdateSipFails(o, sid)
             \/ ConfirmSipEnd(o)]_vars

\* the object is preserved and its latest package went through every stage
FullyPreserved(o) ==
    /\ obj[o].preserved
    /\ obj[o].latest_package # NoLatest
    /\ LET p == pkg[o][obj[o].latest_package]
       IN  p.exists /\ p.downloaded /\ p.packaged /\ p.uploaded /\ p.preserved

\* C34: an unfrozen object scheduled by enqueue_objects, with an external
\* layer that raises no error and a DPRES that accepts, eventually is
\* preserved with a latest package that is downloaded, packaged, uploaded
\* and preserved, under fair scheduling of workers and reconciler.
C34_EndToEndProgress ==
    \A o \in Objs :
        (jobs[o]["download_object"].state = "pending" /\ ~obj[o].frozen)
            ~> FullyPreserved(o)

\* the object is preserved, its package complete, nothing left in a queue
\* and the working directory cleared by confirm_sip
C34_Witness ==
    \E o \in Objs :
        /\ FullyPreserved(o)
        /\ \A q \in QueueType : jobs[o][q].state = "none"
        /\ ~dir[o].exists
        /\ committed[o][obj[o].latest_package]
              = {"download_object", "create_sip", "submit_sip", "confirm_sip"}

\* the stage flags of a package row
StageFlags(p) ==
    [downloaded |-> p.downloaded, packaged |-> p.packaged,
     uploaded |-> p.uploaded, preserved |-> p.preserved,
     rejected |-> p.rejected]

\* C35: while an object is frozen no package is created for it and no stage
\* flag (downloaded, packaged, uploaded, preserved, rejected) of any of its
\* packages is set.
C35_FrozenObjectOutOfPipeline ==
    [][\A o \in DOMAIN obj :
          (obj[o].frozen /\ obj'[o].frozen) =>
             \A sid \in SipIds :
                /\ pkg'[o][sid].exists => pkg[o][sid].exists
                /\ \A f \in DOMAIN StageFlags(pkg[o][sid]) :
                      StageFlags(pkg'[o][sid])[f]
                         => StageFlags(pkg[o][sid])[f]]_vars

\* C36: combine_results returns exactly one result per distinct sip_filename
\* of its input lists, and the result kept for a sip_filename is an input
\* with the greatest report_time among all inputs of that name, whatever the
\* order of the inputs and whichever list they come from.
C36_CombineKeepsNewest ==
    plan.call = "combine" =>
        LET inputs == Range(plan.accepted_sips) \cup Range(plan.rejected_sips)
            result == plan.result
        IN  /\ {r.sip_filename : r \in Range(result)}
                  = {r.sip_filename : r \in inputs}
            /\ \A i, j \in DOMAIN result :
                  result[i].sip_filename = result[j].sip_filename => i = j
            /\ \A i \in DOMAIN result :
                  /\ result[i] \in inputs
                  /\ \A x \in inputs :
                        x.sip_filename = result[i].sip_filename
                           => x.report_time <= result[i].report_time

\* sip1 was accepted and later rejected, and the accepted list holds an
\* older transfer of sip2 after a newer one: the rejected result of sip1 and
\* the newer result of sip2 are kept
C36_Witness ==
    /\ plan.call = "combine"
    /\ plan.accepted_sips =
          << [sip_filename |-> "sip2", report_time |-> 2,
              status |-> "accepted"],
             [sip_filename |-> "sip2", report_time |-> 1,
              status |-> "accepted"] >>
    /\ plan.rejected_sips =
          << [sip_filename |-> "sip1", report_time |-> 1,
              status |-> "rejected"],
             [sip_filename |-> "sip1", report_time |-> 2,
              status |-> "rejected"] >>
    /\ plan.result =
          << [sip_filename |-> "sip2", report_time |-> 2,
              status |-> "accepted"],
             [sip_filename |-> "sip1", report_time |-> 2,
              status |-> "rejected"] >>

\* a stage handler of object o is inside its body
HandlerExecuting(o) ==
    \E q \in QueueType : run[o][q].pc \in {"body", "uploaded"}

\* C37: freeze_objects does not cancel the latest package, delete the jobs
\* or remove the working directory of a listed object while a stage handler
\* of that object is executing: a job started after the started registries
\* were read does not overlap with the rest of the freeze.
C37_FreezeNeverOverlapsHandler ==
    [][(ops["freeze"].pc = "cs" /\ ops'["freeze"].pc = "idle") =>
          \A o \in ops["freeze"].ids : ~HandlerExecuting(o)]_vars

\* the packages of object o that are downloaded and neither preserved,
\* rejected nor cancelled
InFlight(o) ==
    {sid \in SipIds :
        /\ pkg[o][sid].exists /\ pkg[o][sid].downloaded
        /\ ~pkg[o][sid].preserved /\ ~pkg[o][sid].rejected
        /\ ~pkg[o][sid].cancelled}

\* C38: at most one packaging attempt per object is in flight: an object
\* never has two packages that are downloaded and not yet preserved,
\* rejected or cancelled.
C38_OnePackageInFlight ==
    \A o \in DOMAIN obj : Cardinality(InFlight(o)) <= 1

\* C39: for any database state and remote tree, a run of
\* sync_processed_sips with the set of confirmed sip_filenames marks the
\* same packages, writes the same status files and enqueues the same
\* confirm_sip jobs as a run with an empty skip set.
C39_SkipSetChangesNothing ==
    plan.call = "sync_processed_sips" =>
        LET st == sync_processed_sips(
                      [pkg |-> plan.pkg_before, dir |-> plan.dir_before,
                       jobs |-> plan.jobs_before, raised |-> FALSE],
                      remote, plan.listing, {})
        IN  /\ pkg = st.pkg
            /\ dir = st.dir
            /\ jobs = st.jobs
            /\ plan.raised = st.raised

\* a run that skipped a marked package and, among the others, marked one
\* package preserved and one rejected and enqueued their confirm_sip jobs
C39_Witness ==
    /\ plan.call = "sync_processed_sips"
    /\ plan.confirmed_sip_filenames # {}
    /\ ~plan.raised
    /\ \E a, b \in (DOMAIN pkg) \X SipIds :
          /\ pkg[a[1]][a[2]].preserved /\ ~plan.pkg_before[a[1]][a[2]].preserved
          /\ pkg[b[1]][b[2]].rejected /\ ~plan.pkg_before[b[1]][b[2]].rejected
          /\ jobs[a[1]]["confirm_sip"].state = "pending"
          /\ jobs[b[1]]["confirm_sip"].state = "pending"
          /\ dir[a[1]].status[a[2]] = "accepted"
          /\ dir[b[1]].status[b[2]] = "rejected"

\* C40: the two lock scopes cannot deadlock.  Whoever holds a lock is
\* running, not waiting: the holder of lock-object-<id> is a handler of
\* that object inside its body, which waits for no second object lock and
\* never for workflow-lock, and the holder of workflow-lock is a script
\* inside its guarded section, which waits for no object lock.  With
\* holders that terminate every lock request is eventually granted.
C40_HoldersRun ==
    /\ \A o \in Objs : lock[o] # "free" =>
          /\ run[o][lock[o]].pc \in {"body", "uploaded"}
          /\ \A q \in QueueType \ {lock[o]} :
                run[o][q].pc \in {"idle", "wait"} \/ q = "confirm_sip"
    /\ \A op \in Ops : wflock = op => ops[op].pc = "cs"

====
